---- MODULE Spec2Model ----
(***************************************************************************)
(* A model of the page analyzer of playwright-test-scaffold                *)
(* (src/generators/page_analyzer.py): the analyze() call with its browser  *)
(* session, page-type classification and element extraction; and of the    *)
(* artifact generators that consume its PageInfo                           *)
(* (src/generators/test_plan_generator.py, test_code_generator.py).        *)
(*                                                                         *)
(* Text is modelled in two ways.  A URL and a node's text are sequences of *)
(* one-character strings, so that re.search and :has-text are substring    *)
(* searches.  An attribute value is an optional token: << >> is Python's   *)
(* None (attribute absent), <<v>> is the string v.  A class attribute is a *)
(* sequence of tokens, a token being a run of whitespace or a class name.  *)
(* A generated selector is the sequence of the pieces of its f-string.     *)
(***************************************************************************)
EXTENDS Integers, Sequences, FiniteSets, TLC

VARIABLES
    pc,            \* position of the analyze() call
    url,           \* analyze's url argument (characters)
    auth_callback, \* TRUE when the caller passed an auth_callback
    dom,           \* the page's nodes in document order
    page_title,    \* what page.title() answers
    failing,       \* the <<site, selector>> locator queries that raise
    browser,       \* "none" | "open" | "closed": the launched browser
    session,       \* "none" | "open" | "closed": browser + context + page
    closedBy,      \* which statement closed the browser
    steps,         \* the steps of the call that have run, in order
    title,         \* _analyze_page's local title
    scores,        \* _detect_page_type's local scores
    page_type,     \* _analyze_page's local page_type
    elements,      \* _get_elements' list
    producedBy,    \* per element: the routine, query and node it came from
    forms,         \* _get_forms' list
    navigation,    \* _get_navigation's list
    pending,       \* the value or exception travelling out of the try block
    outcome,       \* what has reached the caller of analyze
    runs,          \* number of analyze() calls started
    memo,          \* the latest call that returned: its page and its page type
    page_info,     \* the PageInfo object the caller hands to the generators
    now,           \* the reading of the clock (datetime.now())
    files,         \* the filesystem: path -> content
    calls,         \* the generator and configuration calls made so far, with
                   \* what they returned
    environ,       \* os.environ: name -> value
    instance,      \* ConfigManager._instance
    config_data    \* ConfigManager._config_data

vars == <<pc, url, auth_callback, dom, page_title, failing, browser, session,
          closedBy, steps, title, scores, page_type, elements, producedBy,
          forms, navigation, pending, outcome, runs, memo,
          page_info, now, files, calls, environ, instance, config_data>>

(***************************************************************************)
(* Bounds of the model.                                                    *)
(***************************************************************************)
MaxSegs == 2     \* path segments of a URL
MaxNodes == 2    \* nodes of a DOM
MaxFail == 1     \* locator queries that raise during one call
MaxRuns == 3     \* analyze() calls in one behaviour

(***************************************************************************)
(* Sequences and text.                                                     *)
(***************************************************************************)
RECURSIVE Flatten(_)
Flatten(ss) == IF ss = << >> THEN << >> ELSE Head(ss) \o Flatten(Tail(ss))

RECURSIVE SeqsUpTo(_, _)
SeqsUpTo(S, n) ==
    IF n = 0 THEN { << >> }
    ELSE LET shorter == SeqsUpTo(S, n - 1)
         IN  shorter \cup { Append(s, x) : s \in shorter, x \in S }

\* the increasing index sequence of a set of indices
RECURSIVE Ascending(_)
Ascending(I) ==
    IF I = {} THEN << >>
    ELSE LET m == CHOOSE i \in I : \A j \in I : i <= j
         IN  <<m>> \o Ascending(I \ {m})

UpperAlpha == <<"A","B","C","D","E","F","G","H","I","J","K","L","M",
                "N","O","P","Q","R","S","T","U","V","W","X","Y","Z">>
LowerAlpha == <<"a","b","c","d","e","f","g","h","i","j","k","l","m",
                "n","o","p","q","r","s","t","u","v","w","x","y","z">>
Digits == {"0","1","2","3","4","5","6","7","8","9"}

ToLower == [c \in { UpperAlpha[i] : i \in 1..26 } |->
               LowerAlpha[CHOOSE i \in 1..26 : UpperAlpha[i] = c]]

Lower(c) == IF c \in DOMAIN ToLower THEN ToLower[c] ELSE c

\* lit occurs in s at offset i (0-based), letters compared case-insensitively
OccursAt(lit, s, i) ==
    /\ i + Len(lit) <= Len(s)
    /\ \A k \in 1..Len(lit) : Lower(s[i + k]) = Lower(lit[k])

ContainsIgnoreCase(lit, s) == \E i \in 0..Len(s) : OccursAt(lit, s, i)

(***************************************************************************)
(* re.search(pattern, url, re.IGNORECASE) for the patterns of the rule     *)
(* table: a literal is a substring search; /\d+$ is a slash, one or more   *)
(* digits and the end of the string ($ also matches before a final "\n").  *)
(***************************************************************************)
PatternChars(p) ==
    CASE p = "/login"       -> <<"/","l","o","g","i","n">>
      [] p = "/signin"      -> <<"/","s","i","g","n","i","n">>
      [] p = "/auth"        -> <<"/","a","u","t","h">>
      [] p = "/register"    -> <<"/","r","e","g","i","s","t","e","r">>
      [] p = "/signup"      -> <<"/","s","i","g","n","u","p">>
      [] p = "/join"        -> <<"/","j","o","i","n">>
      [] p = "/edit"        -> <<"/","e","d","i","t">>
      [] p = "/create"      -> <<"/","c","r","e","a","t","e">>
      [] p = "/new"         -> <<"/","n","e","w">>
      [] p = "/add"         -> <<"/","a","d","d">>
      [] p = "/list"        -> <<"/","l","i","s","t">>
      [] p = "/index"       -> <<"/","i","n","d","e","x">>
      [] p = "/all"         -> <<"/","a","l","l">>
      [] p = "/view"        -> <<"/","v","i","e","w">>
      [] p = "/detail"      -> <<"/","d","e","t","a","i","l">>
      [] p = "/show"        -> <<"/","s","h","o","w">>
      [] p = "/dashboard"   -> <<"/","d","a","s","h","b","o","a","r","d">>
      [] p = "/home"        -> <<"/","h","o","m","e">>
      [] p = "/overview"    -> <<"/","o","v","e","r","v","i","e","w">>
      [] p = "/settings"    -> <<"/","s","e","t","t","i","n","g","s">>
      [] p = "/profile"     -> <<"/","p","r","o","f","i","l","e">>
      [] p = "/preferences" -> <<"/","p","r","e","f","e","r","e","n","c","e","s">>
      [] p = "/config"      -> <<"/","c","o","n","f","i","g">>
      [] p = "/\\d+$"       -> <<"/","\\","d","+","$">>

SlashDigitsAtEnd(s) ==
    \E i \in 1..Len(s) : \E e \in {Len(s), Len(s) - 1} :
        /\ s[i] = "/"
        /\ i < e
        /\ \A k \in (i + 1)..e : s[k] \in Digits
        /\ e = Len(s) \/ s[Len(s)] = "\n"

\* re.search with a pattern given by its characters
re_search(p, s) ==
    IF p = <<"/","\\","d","+","$">> THEN SlashDigitsAtEnd(s)
    ELSE ContainsIgnoreCase(p, s)

(***************************************************************************)
(* PAGE_TYPE_RULES, in declaration order.                                  *)
(***************************************************************************)
PAGE_TYPE_RULES == <<
    [type |-> "LOGIN",
     url_patterns |-> <<"/login", "/signin", "/auth">>,
     element_patterns |-> <<"input[type='password']", "button:has-text('Login')",
                            "button:has-text('Sign in')">>],
    [type |-> "REGISTER",
     url_patterns |-> <<"/register", "/signup", "/join">>,
     element_patterns |-> <<"input[type='password']", "button:has-text('Register')",
                            "button:has-text('Sign up')">>],
    [type |-> "FORM",
     url_patterns |-> <<"/edit", "/create", "/new", "/add">>,
     element_patterns |-> <<"form", "input", "textarea", "select">>],
    [type |-> "LIST",
     url_patterns |-> <<"/list", "/index", "/all">>,
     element_patterns |-> <<"table", "[role='grid']", ".pagination", ".list-item">>],
    [type |-> "DETAIL",
     url_patterns |-> <<"/view", "/detail", "/show", "/\\d+$">>,
     element_patterns |-> <<".detail", ".view", "button:has-text('Edit')">>],
    [type |-> "DASHBOARD",
     url_patterns |-> <<"/dashboard", "/home", "/overview">>,
     element_patterns |-> <<".card", ".widget", ".chart", ".stats">>],
    [type |-> "SETTINGS",
     url_patterns |-> <<"/settings", "/profile", "/preferences", "/config">>,
     element_patterns |-> <<"input", "select", "button:has-text('Save')">>] >>

PageTypes == { PAGE_TYPE_RULES[i].type : i \in 1..Len(PAGE_TYPE_RULES) }

RulesOf(t) == PAGE_TYPE_RULES[CHOOSE i \in 1..Len(PAGE_TYPE_RULES) :
                                  PAGE_TYPE_RULES[i].type = t]

\* the rule table with every URL pattern spelled out in characters
RulesInChars ==
    [i \in 1..Len(PAGE_TYPE_RULES) |->
        [type |-> PAGE_TYPE_RULES[i].type,
         url_patterns |-> [k \in 1..Len(PAGE_TYPE_RULES[i].url_patterns) |->
                              PatternChars(PAGE_TYPE_RULES[i].url_patterns[k])],
         element_patterns |-> PAGE_TYPE_RULES[i].element_patterns]]

(***************************************************************************)
(* The page: DOM nodes and what the browser answers about them.            *)
(***************************************************************************)
AttrNames == {"id", "name", "type", "role", "placeholder", "href", "required",
              "disabled", "maxlength", "pattern", "action", "method"}

NoAttrs == [a \in AttrNames |-> << >>]

\* the reads _extract_element_info makes on a locator, in the order it makes them
ElementReads == <<"tag", "id", "name", "class", "text", "placeholder", "role",
                  "required", "disabled", "type", "maxlength", "pattern">>

Whitespace == {" ", "  ", "\t", "\n"}

MkNode(tag, attrs, class, text, ancestors) ==
    [tag |-> tag, attrs |-> attrs @@ NoAttrs, class |-> class, text |-> text,
     ancestors |-> ancestors, fails |-> {}]

\* the nodes pages are made of
Nodes ==
    [
     form |->
        MkNode("form", "id" :> <<"f1">>, << >>, << >>, {}),
     pwd |->
        MkNode("input", ("type" :> <<"password">>) @@ ("id" :> <<"pwd">>)
        @@ ("name" :> <<"password">>) @@ ("required" :> <<"">>),
        << >>, << >>, {"form"}),
     email |->
        MkNode("input", ("type" :> <<"email">>) @@ ("name" :> <<"email">>)
        @@ ("placeholder" :> <<"Email">>),
        << <<"form-control", " ", "lg">> >>, << >>, {}),
     blank |->
        MkNode("input", NoAttrs, << <<"  ">> >>, << >>, {}),
     note |->
        MkNode("textarea", "maxlength" :> <<"200">>,
        << <<" ", "note">> >>, << >>, {}),
     login |->
        MkNode("button", "role" :> <<"button">>,
        << <<"btn", " ", "primary">> >>,
        <<"L","O","G","I","N"," ","n","o","w">>, {}),
     go |->
        MkNode("input", ("type" :> <<"submit">>) @@ ("id" :> <<"go">>)
        @@ ("disabled" :> <<"disabled">>),
        << <<"btn">> >>, << >>, {}),
     join |->
        MkNode("a", ("href" :> <<"/signup">>) @@ ("role" :> <<"button">>),
        << >>, <<"S","i","g","n"," ","u","p">>, {"nav", ".navbar"}),
     country |->
        MkNode("select", "name" :> <<"country">>, << <<>> >>, << >>, {}),
     card |->
        MkNode("div", NoAttrs, << <<"card">> >>, << >>, {}),
     phone |->
        MkNode("input", ("type" :> <<"tel">>) @@ ("id" :> <<"phone">>),
        << >>, << >>, {}),
     qty |->
        MkNode("input", "type" :> <<"number">>, << >>, << >>, {}),
     alias |->
        MkNode("input", ("type" :> <<"text">>) @@ ("name" :> <<"email">>)
        @@ ("id" :> <<"alias">>),
        << >>, << >>, {})
    ]

CleanPool == <<Nodes.form, Nodes.pwd, Nodes.email, Nodes.blank, Nodes.note, Nodes.login, Nodes.go, Nodes.join,
               Nodes.country, Nodes.card>>

\* the nodes that page-type rules tell apart
ClassifyPool == <<Nodes.form, Nodes.pwd, Nodes.login, Nodes.join, Nodes.country, Nodes.card>>

\* a node one of whose reads raises (a detached or crashed element handle)
Faulty(n, r) == [n EXCEPT !.fails = {r}]

FaultyPool == [i \in 1..Len(ElementReads) |-> Faulty(Nodes.email, ElementReads[i])]

\* a form's descendants come after a form node
WellFormed(d) ==
    \A i \in 1..Len(d) :
        "form" \in d[i].ancestors => \E j \in 1..(i - 1) : d[j].tag = "form"

\* the DOMs of at most n nodes taken from a pool, in the pool's order
DOMsFrom(pool, n) ==
    { d \in { [k \in 1..Len(Ascending(I)) |-> pool[Ascending(I)[k]]] :
                  I \in { J \in SUBSET (1..Len(pool)) : Cardinality(J) <= n } } :
        WellFormed(d) }

\* str.split(): the maximal runs of non-whitespace
Split(tokens) == SelectSeq(tokens, LAMBDA t : t \notin Whitespace /\ t # "")

ClassList(n) == IF n.class = << >> THEN << >> ELSE Split(n.class[1])

HasClass(n, c) == \E i \in 1..Len(ClassList(n)) : ClassList(n)[i] = c

(***************************************************************************)
(* The selectors the analyzer uses, as the browser matches them.           *)
(***************************************************************************)
TagIs(n, t) == n.tag = t

AttrIs(n, a, v) == n.attrs[a] = <<v>>

ButtonHasText(n, t) == n.tag = "button" /\ ContainsIgnoreCase(t, n.text)

Matches(n, sel) ==
    CASE sel = "input[type='text']"     -> TagIs(n, "input") /\ AttrIs(n, "type", "text")
      [] sel = "input[type='email']"    -> TagIs(n, "input") /\ AttrIs(n, "type", "email")
      [] sel = "input[type='password']" -> TagIs(n, "input") /\ AttrIs(n, "type", "password")
      [] sel = "input[type='number']"   -> TagIs(n, "input") /\ AttrIs(n, "type", "number")
      [] sel = "input[type='tel']"      -> TagIs(n, "input") /\ AttrIs(n, "type", "tel")
      [] sel = "input[type='url']"      -> TagIs(n, "input") /\ AttrIs(n, "type", "url")
      [] sel = "input[type='search']"   -> TagIs(n, "input") /\ AttrIs(n, "type", "search")
      [] sel = "input[type='submit']"   -> TagIs(n, "input") /\ AttrIs(n, "type", "submit")
      [] sel = "input[type='button']"   -> TagIs(n, "input") /\ AttrIs(n, "type", "button")
      [] sel = "input:not([type])"      -> TagIs(n, "input") /\ n.attrs["type"] = << >>
      [] sel = "input"                  -> TagIs(n, "input")
      [] sel = "textarea"               -> TagIs(n, "textarea")
      [] sel = "select"                 -> TagIs(n, "select")
      [] sel = "button"                 -> TagIs(n, "button")
      [] sel = "form"                   -> TagIs(n, "form")
      [] sel = "table"                  -> TagIs(n, "table")
      [] sel = "a[href]"                -> TagIs(n, "a") /\ n.attrs["href"] # << >>
      [] sel = "[role='button']"        -> AttrIs(n, "role", "button")
      [] sel = "[role='grid']"          -> AttrIs(n, "role", "grid")
      [] sel = ".pagination"            -> HasClass(n, "pagination")
      [] sel = ".list-item"             -> HasClass(n, "list-item")
      [] sel = ".detail"                -> HasClass(n, "detail")
      [] sel = ".view"                  -> HasClass(n, "view")
      [] sel = ".card"                  -> HasClass(n, "card")
      [] sel = ".widget"                -> HasClass(n, "widget")
      [] sel = ".chart"                 -> HasClass(n, "chart")
      [] sel = ".stats"                 -> HasClass(n, "stats")
      [] sel = "button:has-text('Login')"    -> ButtonHasText(n, <<"L","o","g","i","n">>)
      [] sel = "button:has-text('Sign in')"  -> ButtonHasText(n, <<"S","i","g","n"," ","i","n">>)
      [] sel = "button:has-text('Register')" -> ButtonHasText(n, <<"R","e","g","i","s","t","e","r">>)
      [] sel = "button:has-text('Sign up')"  -> ButtonHasText(n, <<"S","i","g","n"," ","u","p">>)
      [] sel = "button:has-text('Edit')"     -> ButtonHasText(n, <<"E","d","i","t">>)
      [] sel = "button:has-text('Save')"     -> ButtonHasText(n, <<"S","a","v","e">>)
      [] sel = "input, textarea, select" ->
             TagIs(n, "input") \/ TagIs(n, "textarea") \/ TagIs(n, "select")
      [] sel = "nav a"     -> TagIs(n, "a") /\ "nav" \in n.ancestors
      [] sel = "header a"  -> TagIs(n, "a") /\ "header" \in n.ancestors
      [] sel = ".navbar a" -> TagIs(n, "a") /\ ".navbar" \in n.ancestors
      [] sel = ".menu a"   -> TagIs(n, "a") /\ ".menu" \in n.ancestors
      [] sel = ".nav a"    -> TagIs(n, "a") /\ ".nav" \in n.ancestors

\* A page is the DOM with the <<site, selector>> queries that raise on it.
\* page.locator(sel).all(): the matching nodes (their indices), in document order
LocatorAll(page, sel) ==
    Ascending({ i \in 1..Len(page.dom) : Matches(page.dom[i], sel) })

LocatorCount(page, sel) == Len(LocatorAll(page, sel))

\* <<site, "*">> stands for every query of that site raising
LocatorRaises(page, site, sel) ==
    <<site, sel>> \in page.failing \/ <<site, "*">> \in page.failing

(***************************************************************************)
(* _detect_page_type                                                       *)
(***************************************************************************)
\* a variant that leaves the loop at the first pattern that matches
RECURSIVE UrlLoopBreak(_, _, _)
UrlLoopBreak(patterns, u, score) ==
    IF patterns = << >> THEN score
    ELSE IF re_search(Head(patterns), u) THEN score + 2
    ELSE UrlLoopBreak(Tail(patterns), u, score)

\* for pattern in rules["url_patterns"]: if re.search(...): scores[t] += 2
RECURSIVE UrlLoop(_, _, _)
UrlLoop(patterns, u, score) ==
    IF patterns = << >> THEN score
    ELSE UrlLoop(Tail(patterns), u,
                 IF re_search(Head(patterns), u) THEN score + 2 ELSE score)

\* a variant whose try block is around the whole loop: the first selector that
\* raises ends the loop for its type
RECURSIVE ElementLoopAbort(_, _, _, _)
ElementLoopAbort(t, selectors, page, score) ==
    IF selectors = << >> THEN score
    ELSE IF LocatorRaises(page, t, Head(selectors)) THEN score
    ELSE ElementLoopAbort(t, Tail(selectors), page,
             IF LocatorCount(page, Head(selectors)) > 0 THEN score + 1 ELSE score)

\* for selector in rules["element_patterns"]: try: if count() > 0: += 1
RECURSIVE ElementLoop(_, _, _, _)
ElementLoop(t, selectors, page, score) ==
    IF selectors = << >> THEN score
    ELSE ElementLoop(t, Tail(selectors), page,
             IF LocatorRaises(page, t, Head(selectors)) THEN score
             ELSE IF LocatorCount(page, Head(selectors)) > 0 THEN score + 1
             ELSE score)

RECURSIVE ScoreLoop(_, _, _, _)
ScoreLoop(rules, u, page, sc) ==
    IF rules = << >> THEN sc
    ELSE LET r == Head(rules)
             s == ElementLoop(r.type, r.element_patterns, page,
                              UrlLoop(r.url_patterns, u, sc[r.type]))
         IN  ScoreLoop(Tail(rules), u, page, [sc EXCEPT ![r.type] = s])

ComputeScores(u, page) ==
    ScoreLoop(RulesInChars, u, page, [t \in PageTypes |-> 0])

\* a variant that keeps the last key of greatest value
RECURSIVE MaxLoopLast(_, _, _)
MaxLoopLast(keys, sc, best) ==
    IF keys = << >> THEN best
    ELSE MaxLoopLast(Tail(keys), sc,
                     IF sc[Head(keys)] >= sc[best] THEN Head(keys) ELSE best)

\* max(scores, key=scores.get): the first key, in dict order, of greatest value
RECURSIVE MaxLoop(_, _, _)
MaxLoop(keys, sc, best) ==
    IF keys = << >> THEN best
    ELSE MaxLoop(Tail(keys), sc,
                 IF sc[Head(keys)] > sc[best] THEN Head(keys) ELSE best)

ScoreKeys == [i \in 1..Len(PAGE_TYPE_RULES) |-> PAGE_TYPE_RULES[i].type]

MaxByScore(sc) == MaxLoop(Tail(ScoreKeys), sc, Head(ScoreKeys))

\* a variant without the fallback to "FORM"
BestNoDefault(sc) == MaxByScore(sc)

\* return best_type if scores[best_type] > 0 else "FORM"
BestOrDefault(sc) ==
    LET best_type == MaxByScore(sc)
    IN  IF sc[best_type] > 0 THEN best_type ELSE "FORM"

(***************************************************************************)
(* _extract_element_info and the four category routines.                   *)
(***************************************************************************)
None == << >>

\* "x or ''" for an attribute read
OrEmpty(opt) == IF opt = << >> THEN "" ELSE opt[1]

\* locator.get_attribute("class") or "": the attribute's tokens
ClassString(n) == IF n.class = << >> THEN << >> ELSE n.class[1]

\* a Python string is truthy when it is not empty
Truthy(tokens) == \E i \in 1..Len(tokens) : tokens[i] # ""

\* element_class.split()[0] raises IndexError on a whitespace-only string
SplitRaisesIndexError(n) == Truthy(ClassString(n)) /\ Split(ClassString(n)) = << >>

\* a variant that prefers the name to the id
BuildSelectorNameFirst(tag, element_id, element_name, element_class) ==
    IF element_name # "" THEN <<"[name='", element_name, "']">>
    ELSE IF element_id # "" THEN <<"#", element_id>>
    ELSE IF Truthy(element_class)
         THEN LET first_class == Split(element_class)[1]
              IN  IF first_class # "" THEN <<tag, ".", first_class>> ELSE <<tag>>
    ELSE <<tag>>

BuildSelector(tag, element_id, element_name, element_class) ==
    IF element_id # "" THEN <<"#", element_id>>
    ELSE IF element_name # "" THEN <<"[name='", element_name, "']">>
    ELSE IF Truthy(element_class)
         THEN LET first_class == Split(element_class)[1]
              IN  IF first_class # "" THEN <<tag, ".", first_class>> ELSE <<tag>>
    ELSE <<tag>>

\* a variant that guards every read on its own: only the tag read is fatal
ExtractElementInfoTolerant(n, element_type) ==
    IF "tag" \in n.fails THEN None
    ELSE LET read(a) == IF a \in n.fails THEN None ELSE n.attrs[a]
             element_id == OrEmpty(read("id"))
             element_name == OrEmpty(read("name"))
             element_class == IF "class" \in n.fails \/ SplitRaisesIndexError(n)
                              THEN << >> ELSE ClassString(n)
         IN  << [selector |-> BuildSelector(n.tag, element_id, element_name,
                                            element_class),
                 tag |-> n.tag,
                 type |-> element_type,
                 text |-> IF "text" \in n.fails THEN << >> ELSE n.text,
                 placeholder |-> OrEmpty(read("placeholder")),
                 name |-> element_name,
                 id |-> element_id,
                 role |-> OrEmpty(read("role")),
                 required |-> read("required") # None,
                 disabled |-> read("disabled") # None,
                 attributes |-> [type |-> OrEmpty(read("type")),
                                 maxlength |-> OrEmpty(read("maxlength")),
                                 pattern |-> OrEmpty(read("pattern"))]] >>

\* the PageElement of a node, or None when any read raises inside the try
ExtractElementInfo(n, element_type) ==
    IF \E i \in 1..Len(ElementReads) : ElementReads[i] \in n.fails THEN None
    ELSE IF SplitRaisesIndexError(n) THEN None
    ELSE LET element_id == OrEmpty(n.attrs["id"])
             element_name == OrEmpty(n.attrs["name"])
         IN  << [selector |-> BuildSelector(n.tag, element_id, element_name,
                                            ClassString(n)),
                 tag |-> n.tag,
                 type |-> element_type,
                 text |-> n.text,
                 placeholder |-> OrEmpty(n.attrs["placeholder"]),
                 name |-> element_name,
                 id |-> element_id,
                 role |-> OrEmpty(n.attrs["role"]),
                 required |-> n.attrs["required"] # None,
                 disabled |-> n.attrs["disabled"] # None,
                 attributes |-> [type |-> OrEmpty(n.attrs["type"]),
                                 maxlength |-> OrEmpty(n.attrs["maxlength"]),
                                 pattern |-> OrEmpty(n.attrs["pattern"])]] >>

\* a variant that skips a node the routine has already emitted
RECURSIVE LocatorLoopOnce(_, _, _, _, _, _)
LocatorLoopOnce(page, locators, site, sel, element_type, acc) ==
    IF locators = << >> THEN acc
    ELSE LET element == ExtractElementInfo(page.dom[Head(locators)], element_type)
             seen == \E j \in 1..Len(acc) : acc[j].origin.node = Head(locators)
             found == IF element = None \/ seen THEN acc
                      ELSE Append(acc, [element |-> element[1],
                                        origin |-> [routine |-> site, query |-> sel,
                                                    node |-> Head(locators)]])
         IN  LocatorLoopOnce(page, Tail(locators), site, sel, element_type, found)

\* for loc in locators: element = _extract_element_info(loc, kind); if element: append
\* (each entry carries the element and, for the record, where it came from)
RECURSIVE LocatorLoop(_, _, _, _, _, _)
LocatorLoop(page, locators, site, sel, element_type, acc) ==
    IF locators = << >> THEN acc
    ELSE LET element == ExtractElementInfo(page.dom[Head(locators)], element_type)
             found == IF element = None THEN acc
                      ELSE Append(acc, [element |-> element[1],
                                        origin |-> [routine |-> site, query |-> sel,
                                                    node |-> Head(locators)]])
         IN  LocatorLoop(page, Tail(locators), site, sel, element_type, found)

\* a variant whose try surrounds the loop: a raising query ends the routine
RECURSIVE SelectorLoopAbort(_, _, _, _, _)
SelectorLoopAbort(page, site, selectors, element_type, acc) ==
    IF selectors = << >> THEN acc
    ELSE IF LocatorRaises(page, site, Head(selectors)) THEN acc
    ELSE SelectorLoopAbort(page, site, Tail(selectors), element_type,
             LocatorLoop(page, LocatorAll(page, Head(selectors)), site,
                         Head(selectors), element_type, acc))

\* for selector in selectors: try: locators = page.locator(selector).all() ... except: pass
RECURSIVE SelectorLoop(_, _, _, _, _)
SelectorLoop(page, site, selectors, element_type, acc) ==
    IF selectors = << >> THEN acc
    ELSE SelectorLoop(page, site, Tail(selectors), element_type,
             IF LocatorRaises(page, site, Head(selectors)) THEN acc
             ELSE LocatorLoop(page, LocatorAll(page, Head(selectors)), site,
                              Head(selectors), element_type, acc))

input_types == <<"input[type='text']", "input[type='email']", "input[type='password']",
                 "input[type='number']", "input[type='tel']", "input[type='url']",
                 "input[type='search']", "input:not([type])", "textarea">>

button_selectors == <<"button", "input[type='submit']", "input[type='button']",
                      "[role='button']">>

get_inputs(page) == SelectorLoop(page, "inputs", input_types, "input", << >>)

\* a variant that labels what the button queries find as inputs
get_buttons_as_input(page) ==
    SelectorLoop(page, "buttons", button_selectors, "input", << >>)

get_buttons(page) == SelectorLoop(page, "buttons", button_selectors, "button", << >>)

get_links(page) == SelectorLoop(page, "links", <<"a[href]">>, "link", << >>)

get_selects(page) == SelectorLoop(page, "selects", <<"select">>, "select", << >>)

(***************************************************************************)
(* _get_forms and _get_navigation.                                         *)
(***************************************************************************)
\* the nodes a form's locator("input, textarea, select") finds: its descendants
FormInputs(page) ==
    Ascending({ i \in 1..Len(page.dom) :
                  /\ Matches(page.dom[i], "input, textarea, select")
                  /\ "form" \in page.dom[i].ancestors })

FormInfo(page, f) ==
    LET inputs == FormInputs(page)
    IN  IF \/ f.fails \cap {"id", "action", "method"} # {}
           \/ LocatorRaises(page, "forms", "input, textarea, select")
           \/ \E k \in 1..Len(inputs) :
                  page.dom[inputs[k]].fails \cap {"name", "type", "required"} # {}
        THEN None
        ELSE << [id |-> OrEmpty(f.attrs["id"]),
                 action |-> OrEmpty(f.attrs["action"]),
                 method |-> IF OrEmpty(f.attrs["method"]) = "" THEN "GET"
                            ELSE f.attrs["method"][1],
                 inputs |-> [k \in 1..Len(inputs) |->
                     LET inp == page.dom[inputs[k]]
                     IN  [name |-> OrEmpty(inp.attrs["name"]),
                          type |-> IF OrEmpty(inp.attrs["type"]) = "" THEN "text"
                                   ELSE inp.attrs["type"][1],
                          required |-> inp.attrs["required"] # None]]] >>

RECURSIVE FormLoop(_, _, _)
FormLoop(page, form_locators, acc) ==
    IF form_locators = << >> THEN acc
    ELSE FormLoop(page, Tail(form_locators),
                  acc \o FormInfo(page, page.dom[Head(form_locators)]))

get_forms(page) ==
    IF LocatorRaises(page, "forms", "form") THEN << >>
    ELSE FormLoop(page, LocatorAll(page, "form"), << >>)

nav_selectors == <<"nav a", "header a", ".navbar a", ".menu a", ".nav a">>

RECURSIVE LinkLoop(_, _, _)
LinkLoop(page, links, acc) ==
    IF links = << >> THEN acc
    ELSE LET link == page.dom[Head(links)]
             nav_item == [text |-> link.text, href |-> OrEmpty(link.attrs["href"])]
         IN  LinkLoop(page, Tail(links),
                 IF link.fails \cap {"text", "href"} # {} THEN acc
                 ELSE IF nav_item.text # << >> /\ nav_item.href # ""
                      THEN Append(acc, nav_item)
                 ELSE acc)

RECURSIVE NavLoop(_, _, _)
NavLoop(page, selectors, acc) ==
    IF selectors = << >> THEN acc
    ELSE NavLoop(page, Tail(selectors),
             IF LocatorRaises(page, "nav", Head(selectors)) THEN acc
             ELSE LinkLoop(page, LocatorAll(page, Head(selectors)), acc))

get_navigation(page) == NavLoop(page, nav_selectors, << >>)

(***************************************************************************)
(* Inputs: URLs, DOMs and failing queries.                                 *)
(***************************************************************************)
BaseUrl == <<"h","t","t","p","s",":","/","/","x",".","t","e","s","t">>

SegPool == { <<"/","L","o","g","i","n">>, <<"/","a","u","t","h">>,
             <<"/","s","i","g","n","u","p">>, <<"/","n","e","w","s">>,
             <<"/","4","2">> }

URLsUpTo(n) == { BaseUrl \o Flatten(path) : path \in SeqsUpTo(SegPool, n) }

SubsetsUpTo(S, n) == { F \in SUBSET S : Cardinality(F) <= n }

FlakyDetect == { <<"LOGIN", "input[type='password']">>, <<"SETTINGS", "*">> }

FlakyExtract == { <<"inputs", "input[type='email']">>, <<"inputs", "*">>,
                  <<"buttons", "button">>, <<"links", "a[href]">>,
                  <<"selects", "select">> }

\* the small inputs of the whole-call specification
SessionURLs == { BaseUrl, BaseUrl \o <<"/","L","o","g","i","n">>,
                 BaseUrl \o <<"/","l","i","s","t">> \o <<"/","4","2">> }

SessionDOMs == { << >>, <<Nodes.form, Nodes.pwd, Nodes.login>>, <<Nodes.email, Nodes.join, Nodes.country>> }

SessionFailing == { {}, { <<"LOGIN", "input[type='password']">>,
                         <<"inputs", "*">>, <<"nav", "nav a">> } }

(***************************************************************************)
(* The configuration manager (src/utils/config.py).  A configuration value *)
(* is a record: [kind |-> "dict", items |-> key -> value], a list, or a    *)
(* leaf [kind |-> its Python type, repr |-> its text]; keys, environment   *)
(* names and texts are sequences of characters.                            *)
(***************************************************************************)
PyNone == [kind |-> "NoneType", repr |-> <<"N","o","n","e">>]

\* _get_default_config()
get_default_config ==
    [kind |-> "dict", items |->
        (<<"p","r","o","j","e","c","t">> :> [kind |-> "dict", items |->
            (<<"n","a","m","e">> :> [kind |-> "str", repr |-> <<"T","e","s","t"," ","P","r","o","j","e","c","t">>])
            @@ (<<"v","e","r","s","i","o","n">> :> [kind |-> "str", repr |-> <<"1",".","0",".","0">>])])
        @@ (<<"e","n","v","i","r","o","n","m","e","n","t","s">> :> [kind |-> "dict", items |->
            (<<"d","e","f","a","u","l","t">> :> [kind |-> "str", repr |-> <<"d","e","v">>])
            @@ (<<"d","e","v">> :> [kind |-> "dict", items |->
                (<<"b","a","s","e","_","u","r","l">> :> [kind |-> "str", repr |-> <<"h","t","t","p",":","/","/","l","o","c","a","l","h","o","s","t",":","3","0","0","0">>])
                @@ (<<"a","p","i","_","u","r","l">> :> [kind |-> "str", repr |-> <<"h","t","t","p",":","/","/","l","o","c","a","l","h","o","s","t",":","8","0","8","0","/","a","p","i">>])])])
        @@ (<<"b","r","o","w","s","e","r">> :> [kind |-> "dict", items |->
            (<<"h","e","a","d","l","e","s","s">> :> [kind |-> "bool", repr |-> <<"T","r","u","e">>])
            @@ (<<"s","l","o","w","_","m","o">> :> [kind |-> "int", repr |-> <<"0">>])
            @@ (<<"t","i","m","e","o","u","t">> :> [kind |-> "int", repr |-> <<"3","0","0","0","0">>])
            @@ (<<"v","i","e","w","p","o","r","t">> :> [kind |-> "dict", items |->
                (<<"w","i","d","t","h">> :> [kind |-> "int", repr |-> <<"1","9","2","0">>])
                @@ (<<"h","e","i","g","h","t">> :> [kind |-> "int", repr |-> <<"1","0","8","0">>])])
            @@ (<<"t","y","p","e">> :> [kind |-> "str", repr |-> <<"c","h","r","o","m","i","u","m">>])])
        @@ (<<"t","e","s","t">> :> [kind |-> "dict", items |->
            (<<"r","e","t","r","y","_","c","o","u","n","t">> :> [kind |-> "int", repr |-> <<"2">>])
            @@ (<<"i","m","p","l","i","c","i","t","_","w","a","i","t">> :> [kind |-> "int", repr |-> <<"1","0">>])
            @@ (<<"s","c","r","e","e","n","s","h","o","t","_","o","n","_","f","a","i","l","u","r","e">> :> [kind |-> "bool", repr |-> <<"T","r","u","e">>])])]

\* _load_config(config_file) on the filesystem fs: a missing file, and a file
\* that cannot be opened or parsed, give the default configuration; a file
\* whose content is false as a Python object ("or {}") gives the empty dict
load_config(fs, config_file) ==
    LET Falsy(v) ==
            \/ v.kind = "NoneType"
            \/ v.kind \in {"dict", "list"} /\ v.items = << >>
            \/ v.kind = "str" /\ v.repr = << >>
            \/ v.kind = "int" /\ v.repr = <<"0">>
            \/ v.kind = "bool" /\ v.repr = <<"F","a","l","s","e">>
    IN  IF config_file \notin DOMAIN fs THEN get_default_config
        ELSE IF "file" \notin DOMAIN fs[config_file] THEN get_default_config
        ELSE LET loaded == fs[config_file].file
             IN  IF loaded.parse = "error" THEN get_default_config
                 ELSE IF Falsy(loaded.value) THEN [kind |-> "dict", items |-> << >>]
                 ELSE loaded.value

\* _convert_value(value); float() is taken for the texts made of an optional
\* sign, digits and at most one point
convert_value(value) ==
    LET lower == [i \in 1..Len(value) |-> Lower(value[i])]
        isdigit == value # << >> /\ \A i \in 1..Len(value) : value[i] \in Digits
        RECURSIVE StripZeros(_)
        StripZeros(s) == IF Len(s) > 1 /\ Head(s) = "0" THEN StripZeros(Tail(s)) ELSE s
        unsigned == IF value # << >> /\ Head(value) \in {"+", "-"} THEN Tail(value)
                    ELSE value
        float == /\ \E i \in 1..Len(unsigned) : unsigned[i] \in Digits
                 /\ \A i \in 1..Len(unsigned) : unsigned[i] \in Digits \cup {"."}
                 /\ Cardinality({ i \in 1..Len(unsigned) : unsigned[i] = "." }) <= 1
    IN  IF lower \in { <<"t","r","u","e">>, <<"y","e","s">>, <<"1">> }
        THEN [kind |-> "bool", repr |-> <<"T","r","u","e">>]
        ELSE IF lower \in { <<"f","a","l","s","e">>, <<"n","o">>, <<"0">> }
        THEN [kind |-> "bool", repr |-> <<"F","a","l","s","e">>]
        ELSE IF isdigit THEN [kind |-> "int", repr |-> StripZeros(value)]
        ELSE IF float THEN [kind |-> "float", repr |-> value]
        ELSE [kind |-> "str", repr |-> value]

\* a variant of get that looks in the configuration data before the environment
get_file_first(env, data, key, default) ==
    LET RECURSIVE SplitDots(_, _)
        SplitDots(s, word) ==
            IF s = << >> THEN <<word>>
            ELSE IF Head(s) = "." THEN <<word>> \o SplitDots(Tail(s), << >>)
            ELSE SplitDots(Tail(s), Append(word, Head(s)))
        RECURSIVE Walk(_, _)
        Walk(value, keys) ==
            IF keys = << >> THEN <<value>>
            ELSE IF value.kind # "dict" THEN << >>
            ELSE IF Head(keys) \notin DOMAIN value.items THEN << >>
            ELSE Walk(value.items[Head(keys)], Tail(keys))
        Upper(c) == IF \E i \in 1..26 : LowerAlpha[i] = c
                    THEN UpperAlpha[CHOOSE i \in 1..26 : LowerAlpha[i] = c] ELSE c
        env_key == [i \in 1..Len(key) |->
                       IF Upper(key[i]) = "." THEN "_" ELSE Upper(key[i])]
        found == Walk(data, SplitDots(key, << >>))
    IN  IF found # << >> THEN found[1]
        ELSE IF env_key \in DOMAIN env THEN convert_value(env[env_key])
        ELSE default

\* get(key, default): env is os.environ, data is ConfigManager._config_data.
\* The loop "value = value[k]" ends with the value, or with KeyError (no such
\* key in a dict) or TypeError (value is not a dict), which give the default.
get(env, data, key, default) ==
    LET Upper(c) == IF \E i \in 1..26 : LowerAlpha[i] = c
                    THEN UpperAlpha[CHOOSE i \in 1..26 : LowerAlpha[i] = c] ELSE c
        env_key == [i \in 1..Len(key) |->
                       IF Upper(key[i]) = "." THEN "_" ELSE Upper(key[i])]
        RECURSIVE SplitDots(_, _)
        SplitDots(s, word) ==
            IF s = << >> THEN <<word>>
            ELSE IF Head(s) = "." THEN <<word>> \o SplitDots(Tail(s), << >>)
            ELSE SplitDots(Tail(s), Append(word, Head(s)))
        RECURSIVE Loop(_, _)
        Loop(value, keys) ==
            IF keys = << >> THEN [raised |-> "", value |-> value]
            ELSE IF value.kind # "dict" THEN [raised |-> "TypeError"]
            ELSE IF Head(keys) \notin DOMAIN value.items THEN [raised |-> "KeyError"]
            ELSE Loop(value.items[Head(keys)], Tail(keys))
    IN  IF env_key \in DOMAIN env THEN convert_value(env[env_key])
        ELSE LET walked == Loop(data, SplitDots(key, << >>))
             IN  IF walked.raised = "" THEN walked.value ELSE default

\* os.environ of the process
Environs ==
    { << >>,
      <<"B","R","O","W","S","E","R","_","T","I","M","E","O","U","T">> :> <<"6","0","0","0","0">>,
      <<"B","R","O","W","S","E","R","_","T","I","M","E","O","U","T">> :> << >>,
      <<"B","R","O","W","S","E","R","_","T","I","M","E","O","U","T">> :> <<"Y","e","s">>,
      <<"B","R","O","W","S","E","R","_","T","I","M","E","O","U","T">> :> <<"-","1",".","5">>,
      (<<"B","R","O","W","S","E","R">> :> <<"f","i","r","e","f","o","x">>) @@ (<<"B","R","O","W","S","E","R","_","T","Y","P","E">> :> <<"0","0","7">>),
      <<"b","r","o","w","s","e","r",".","t","i","m","e","o","u","t">> :> <<"1">> }

\* what is on disk where the configuration is looked for
ConfigFile == "config/project.yaml"

Disks ==
    { << >>,
      ConfigFile :> [file |-> [parse |-> "error"]],
      ConfigFile :> [file |-> [parse |-> "ok", value |-> PyNone]],
      ConfigFile :> [file |-> [parse |-> "ok",
                               value |-> [kind |-> "list", items |-> <<PyNone>>]]],
      ConfigFile :> [file |-> [parse |-> "ok", value |->
        [kind |-> "dict", items |->
            (<<"b","r","o","w","s","e","r">> :> [kind |-> "dict", items |->
                (<<"t","i","m","e","o","u","t">> :> [kind |-> "int", repr |-> <<"5","0","0","0">>])
                @@ (<<"t","y","p","e">> :> [kind |-> "NoneType", repr |-> <<"N","o","n","e">>])])]]],
      (ConfigFile :> [dir |-> TRUE])
          @@ ("other.yaml" :> [file |-> [parse |-> "ok", value |-> PyNone]]) }

(***************************************************************************)
(* analyze(): one action per statement of the call.                        *)
(***************************************************************************)
Page == [dom |-> dom, failing |-> failing]

NoOutcome == [kind |-> "none"]

Unset == << >>

\* the caller-visible inputs, the page and the process's configuration stay as
\* they are during a call
Inputs == <<url, auth_callback, dom, page_title, failing, runs,
            environ, instance, config_data>>

Locals == <<title, scores, page_type, elements, producedBy, forms, navigation>>

\* what the generators work on; analyze() has no access to it
Generation == <<page_info, now, files, calls>>

Analyze(u, cb, d, t, f) ==
    /\ pc = "idle"
    /\ runs < MaxRuns
    /\ url' = u /\ auth_callback' = cb /\ dom' = d /\ page_title' = t /\ failing' = f
    /\ runs' = runs + 1
    /\ pc' = "launch"
    /\ browser' = "none" /\ session' = "none" /\ closedBy' = "none"
    /\ steps' = << >>
    /\ pending' = NoOutcome /\ outcome' = NoOutcome
    /\ UNCHANGED <<Locals, memo, Generation, environ, instance, config_data>>

\* a statement at position at completes and control moves to position to
Advance(at, to) ==
    /\ pc = at
    /\ pc' = to
    /\ steps' = Append(steps, at)
    /\ UNCHANGED <<Inputs, pending, outcome, memo, Generation>>

\* a statement at position at raises error and control leaves for position to
Raise(at, error, to) ==
    /\ pc = at
    /\ pc' = to
    /\ pending' = [kind |-> "raise", error |-> error, at |-> at]
    /\ UNCHANGED <<Inputs, Locals, browser, session, closedBy, steps, outcome, memo,
                   Generation>>

\* browser = p.chromium.launch(headless=True)
Launch ==
    /\ Advance("launch", "new_context")
    /\ browser' = "open"
    /\ UNCHANGED <<Locals, session, closedBy>>

\* context = browser.new_context(...)
NewContext ==
    /\ Advance("new_context", "new_page")
    /\ UNCHANGED <<Locals, browser, session, closedBy>>

\* page = context.new_page(); the try block is entered
NewPage ==
    /\ Advance("new_page", "auth")
    /\ session' = "open"
    /\ UNCHANGED <<Locals, browser, closedBy>>

\* launch, new_context or new_page raises: the try block is never entered
SetupRaises ==
    \E at \in {"launch", "new_context", "new_page"} : Raise(at, "Error", "with_exit")

\* if auth_callback: auth_callback(page)
NoAuth ==
    /\ pc = "auth"
    /\ ~auth_callback
    /\ pc' = "goto"
    /\ UNCHANGED <<Inputs, Locals, browser, session, closedBy, steps, pending,
                   outcome, memo, Generation>>

Auth ==
    /\ auth_callback
    /\ Advance("auth", "goto")
    /\ UNCHANGED <<Locals, browser, session, closedBy>>

AuthRaises == auth_callback /\ Raise("auth", "CallbackError", "finally")

\* a variant without the settle delay: extraction follows navigation at once
GotoWithoutSettle ==
    /\ Advance("goto", "title")
    /\ UNCHANGED <<Locals, browser, session, closedBy>>

\* page.goto(url, wait_until="networkidle", timeout=30000)
Goto ==
    /\ Advance("goto", "settle")
    /\ UNCHANGED <<Locals, browser, session, closedBy>>

\* a variant in which a failed navigation does not leave the try block
GotoRaisesSwallowed ==
    \E e \in {"TimeoutError", "Error", "TargetClosedError"} :
        Raise("goto", e, "settle")

GotoRaises ==
    \E e \in {"TimeoutError", "Error", "TargetClosedError"} :
        Raise("goto", e, "finally")

\* page.wait_for_timeout(2000)
Settle ==
    /\ Advance("settle", "title")
    /\ UNCHANGED <<Locals, browser, session, closedBy>>

SettleRaises == Raise("settle", "TargetClosedError", "finally")

\* title = page.title()
Title ==
    /\ Advance("title", "detect")
    /\ title' = <<page_title>>
    /\ UNCHANGED <<scores, page_type, elements, producedBy, forms, navigation,
                   browser, session, closedBy>>

TitleRaises == Raise("title", "TargetClosedError", "finally")

\* a variant whose scores dict outlives the call instead of starting at 0
DetectPageTypeStale ==
    /\ Advance("detect", "inputs")
    /\ LET sc == ScoreLoop(RulesInChars, url, Page,
                           IF scores = Unset THEN [t \in PageTypes |-> 0]
                           ELSE scores[1])
       IN  scores' = <<sc>> /\ page_type' = <<BestOrDefault(sc)>>
    /\ UNCHANGED <<title, elements, producedBy, forms, navigation,
                   browser, session, closedBy>>

\* page_type = self._detect_page_type(page, url)
DetectPageType ==
    /\ Advance("detect", "inputs")
    /\ LET sc == ComputeScores(url, Page)
       IN  scores' = <<sc>> /\ page_type' = <<BestOrDefault(sc)>>
    /\ UNCHANGED <<title, elements, producedBy, forms, navigation,
                   browser, session, closedBy>>

\* list.extend(...) with the list one category routine returns
Extend(list, origins, found) ==
    /\ elements' = list \o [i \in 1..Len(found) |-> found[i].element]
    /\ producedBy' = origins \o [i \in 1..Len(found) |-> found[i].origin]
    /\ UNCHANGED <<title, scores, page_type, forms, navigation,
                   browser, session, closedBy>>

\* elements = []; elements.extend(self._get_inputs(page))
GetInputs == Advance("inputs", "buttons") /\ Extend(<< >>, << >>, get_inputs(Page))

GetButtons ==
    Advance("buttons", "links") /\ Extend(elements, producedBy, get_buttons(Page))

GetLinks ==
    Advance("links", "selects") /\ Extend(elements, producedBy, get_links(Page))

GetSelects ==
    Advance("selects", "forms") /\ Extend(elements, producedBy, get_selects(Page))

GetForms ==
    /\ Advance("forms", "navigation")
    /\ forms' = get_forms(Page)
    /\ UNCHANGED <<title, scores, page_type, elements, producedBy, navigation,
                   browser, session, closedBy>>

GetNavigation ==
    /\ Advance("navigation", "return")
    /\ navigation' = get_navigation(Page)
    /\ UNCHANGED <<title, scores, page_type, elements, producedBy, forms,
                   browser, session, closedBy>>

\* return PageInfo(...); return page_info
ReturnPageInfo ==
    /\ pc = "return"
    /\ pc' = "finally"
    /\ steps' = Append(steps, "return")
    /\ pending' = [kind |-> "return",
                   value |-> [url |-> url, title |-> title[1],
                              page_type |-> page_type[1], elements |-> elements,
                              forms |-> forms, navigation |-> navigation]]
    /\ UNCHANGED <<Inputs, Locals, browser, session, closedBy, outcome, memo,
                   Generation>>

\* a variant that closes the browser at the end of the try body, not in finally
FinallyOnlyOnSuccess ==
    /\ pc = "finally"
    /\ pc' = "with_exit"
    /\ IF pending.kind = "return"
       THEN /\ steps' = Append(steps, "close")
            /\ browser' = "closed" /\ session' = "closed" /\ closedBy' = "finally"
       ELSE UNCHANGED <<steps, browser, session, closedBy>>
    /\ UNCHANGED <<Inputs, Locals, pending, outcome, memo, Generation>>

\* finally: browser.close()
Finally ==
    /\ pc = "finally"
    /\ pc' = "with_exit"
    /\ steps' = Append(steps, "close")
    /\ browser' = "closed" /\ session' = "closed" /\ closedBy' = "finally"
    /\ UNCHANGED <<Inputs, Locals, pending, outcome, memo, Generation>>

\* leaving "with sync_playwright() as p": the driver stops and takes a browser
\* that is still open with it; then the value or exception reaches the caller
WithExit ==
    /\ pc = "with_exit"
    /\ pc' = "done"
    /\ steps' = Append(steps, "stop")
    /\ IF browser = "open"
       THEN /\ browser' = "closed" /\ closedBy' = "with_exit"
            /\ session' = IF session = "open" THEN "closed" ELSE session
       ELSE UNCHANGED <<browser, closedBy, session>>
    /\ outcome' = pending
    /\ memo' = IF pending.kind = "return"
               THEN << [url |-> url, dom |-> dom, failing |-> failing,
                        page_type |-> pending.value.page_type] >>
               ELSE memo
    /\ UNCHANGED <<Inputs, Locals, pending, Generation>>

\* the caller calls analyze() again
Again ==
    /\ pc = "done"
    /\ runs < MaxRuns
    /\ pc' = "idle"
    /\ UNCHANGED <<Inputs, Locals, browser, session, closedBy, steps, pending,
                   outcome, memo, Generation>>

Init ==
    /\ pc = "idle"
    /\ url = << >> /\ auth_callback = FALSE /\ dom = << >> /\ page_title = ""
    /\ failing = {}
    /\ browser = "none" /\ session = "none" /\ closedBy = "none"
    /\ steps = << >>
    /\ title = Unset /\ scores = Unset /\ page_type = Unset
    /\ elements = << >> /\ producedBy = << >> /\ forms = << >> /\ navigation = << >>
    /\ pending = NoOutcome /\ outcome = NoOutcome
    /\ runs = 0
    /\ memo = Unset
    /\ page_info = Unset /\ now = 0 /\ files = << >> /\ calls = << >>
    \* PageAnalyzer.__init__ has made the ConfigManager; there is no config file
    /\ environ = << >> /\ instance = <<0>> /\ config_data = <<get_default_config>>

Call ==
    \E u \in SessionURLs, cb \in BOOLEAN, d \in SessionDOMs, f \in SessionFailing :
        Analyze(u, cb, d, "Sign in", f)

Next ==
    \/ Call
    \/ Launch \/ NewContext \/ NewPage \/ SetupRaises
    \/ NoAuth \/ Auth \/ AuthRaises
    \/ Goto \/ GotoRaises
    \/ Settle \/ SettleRaises
    \/ Title \/ TitleRaises
    \/ DetectPageType
    \/ GetInputs \/ GetButtons \/ GetLinks \/ GetSelects
    \/ GetForms \/ GetNavigation
    \/ ReturnPageInfo
    \/ Finally
    \/ WithExit
    \/ Again

Spec == Init /\ [][Next]_vars

(***************************************************************************)
(* Classification alone: a loaded page, then _detect_page_type.            *)
(***************************************************************************)
LoadedSteps == <<"launch", "new_context", "new_page", "goto", "settle", "title">>

InitClassify ==
    /\ pc = "detect"
    /\ url \in URLsUpTo(MaxSegs)
    /\ auth_callback = FALSE
    /\ dom \in DOMsFrom(ClassifyPool, MaxNodes)
    /\ page_title = "Sign in"
    /\ failing \in SubsetsUpTo(FlakyDetect, MaxFail)
    /\ browser = "open" /\ session = "open" /\ closedBy = "none"
    /\ steps = LoadedSteps
    /\ title = <<page_title>> /\ scores = Unset /\ page_type = Unset
    /\ elements = << >> /\ producedBy = << >> /\ forms = << >> /\ navigation = << >>
    /\ pending = NoOutcome /\ outcome = NoOutcome
    /\ runs = 1
    /\ memo = Unset
    /\ page_info = Unset /\ now = 0 /\ files = << >> /\ calls = << >>
    /\ environ = << >> /\ instance = <<0>> /\ config_data = <<get_default_config>>

NextClassify == DetectPageType

SpecClassify == InitClassify /\ [][NextClassify]_vars

(***************************************************************************)
(* Extraction alone: a classified page, then the rest of the call.         *)
(***************************************************************************)
InitExtract ==
    /\ pc = "inputs"
    /\ url = BaseUrl
    /\ auth_callback = FALSE
    /\ dom \in DOMsFrom(CleanPool \o FaultyPool, MaxNodes)
    /\ page_title = "Sign in"
    /\ failing \in SubsetsUpTo(FlakyExtract, MaxFail)
    /\ browser = "open" /\ session = "open" /\ closedBy = "none"
    /\ steps = Append(LoadedSteps, "detect")
    /\ title = <<page_title>>
    /\ scores = <<ComputeScores(url, [dom |-> dom, failing |-> failing])>>
    /\ page_type = <<BestOrDefault(scores[1])>>
    /\ elements = << >> /\ producedBy = << >> /\ forms = << >> /\ navigation = << >>
    /\ pending = NoOutcome /\ outcome = NoOutcome
    /\ runs = 1
    /\ memo = Unset
    /\ page_info = Unset /\ now = 0 /\ files = << >> /\ calls = << >>
    /\ environ = << >> /\ instance = <<0>> /\ config_data = <<get_default_config>>

NextExtract ==
    \/ GetInputs \/ GetButtons \/ GetLinks \/ GetSelects
    \/ GetForms \/ GetNavigation
    \/ ReturnPageInfo
    \/ Finally
    \/ WithExit

SpecExtract == InitExtract /\ [][NextExtract]_vars

(***************************************************************************)
(* The PageInfo the generators receive: what _analyze_page builds from a   *)
(* loaded page.                                                            *)
(***************************************************************************)
\* _get_elements: inputs, then buttons, then links, then selects
get_elements(page) ==
    LET found == get_inputs(page) \o get_buttons(page) \o get_links(page)
                     \o get_selects(page)
    IN  [i \in 1..Len(found) |-> found[i].element]

analyze_page(page, u, t) ==
    [url |-> u, title |-> t,
     page_type |-> BestOrDefault(ComputeScores(u, page)),
     elements |-> get_elements(page),
     forms |-> get_forms(page),
     navigation |-> get_navigation(page)]

\* one URL for each page type
GenURLs == { BaseUrl \o seg : seg \in
               { <<"/","L","o","g","i","n">>, <<"/","s","i","g","n","u","p">>,
                 <<"/","n","e","w">>, <<"/","l","i","s","t">>, <<"/","4","2">>,
                 <<"/","h","o","m","e">>, <<"/","p","r","o","f","i","l","e">> } }

\* inputs of every declared type, with and without name and id (the password
\* input outside a form), a link that is also a button, a select
GenPool == <<[Nodes.pwd EXCEPT !.ancestors = {}], Nodes.email, Nodes.note,
             Nodes.join, Nodes.country, Nodes.phone, Nodes.qty, Nodes.alias>>

(***************************************************************************)
(* generators.utils, the naming normalizer: pure functions of their        *)
(* argument.  A result is kept as the application term <<function, arg>>,  *)
(* so that two results are equal exactly when function and argument are.   *)
(***************************************************************************)
Normalizer(fn, arg) == <<fn, arg>>

\* Python's "a or b" on strings
Or(a, b) == IF a # "" THEN a ELSE b

\* str.strip() on a text given by its characters
Strip(s) ==
    LET black == { i \in 1..Len(s) : s[i] \notin Whitespace }
    IN  IF black = {} THEN << >>
        ELSE SubSeq(s, CHOOSE i \in black : \A j \in black : i <= j,
                       CHOOSE i \in black : \A j \in black : i >= j)

\* [e for e in page_info.elements if e.type == kind]
OfKind(elems, kind) == SelectSeq(elems, LAMBDA e : e.type = kind)

(***************************************************************************)
(* TestPlanGenerator.  A generated text is kept as its structure: the      *)
(* document is the sequence of its sections, the test-case section the     *)
(* sequence of its headings and "#### TC-..." cases, a dict a function.    *)
(* A literal of the templates that is not ASCII is named by its meaning.   *)
(***************************************************************************)
TEST_DIMENSIONS ==
    [LOGIN     |-> <<"functional", "security", "boundary", "exception", "ui">>,
     REGISTER  |-> <<"functional", "validation", "boundary", "exception", "ui">>,
     FORM      |-> <<"functional", "validation", "boundary", "exception", "data">>,
     LIST      |-> <<"functional", "pagination", "filter", "performance", "ui">>,
     DETAIL    |-> <<"functional", "data", "navigation", "ui">>,
     DASHBOARD |-> <<"functional", "data", "performance", "ui">>,
     SETTINGS  |-> <<"functional", "validation", "persistence", "ui">>]

\* format(i, "02d"): the decimal digits of i, zero-padded to two
Format02d(i) ==
    LET DigitChars == <<"0", "1", "2", "3", "4", "5", "6", "7", "8", "9">>
        RECURSIVE Decimal(_)
        Decimal(n) ==
            IF n < 10 THEN <<DigitChars[n + 1]>>
            ELSE Decimal(n \div 10) \o <<DigitChars[(n % 10) + 1]>>
    IN  IF i < 10 THEN <<"0">> \o Decimal(i) ELSE Decimal(i)

\* one "#### TC-{tc}-{number}: ..." block with its attribute table
TestCase(tc, number, priority, type, story, about) ==
    [kind |-> "case", id |-> <<tc, number>>, priority |-> priority,
     type |-> type, story |-> story, about |-> about]

header(pi, clock) ==
    [section |-> "header",
     page_name |-> Normalizer("get_page_name_from_url", pi.url),
     generated |-> clock,
     page_type |-> pi.page_type]

overview(pi) ==
    [section |-> "overview",
     page_name |-> Normalizer("get_page_name_from_url", pi.url),
     url |-> pi.url, title |-> pi.title, page_type |-> pi.page_type,
     dimensions |-> IF pi.page_type \in DOMAIN TEST_DIMENSIONS
                    THEN TEST_DIMENSIONS[pi.page_type] ELSE <<"functional">>,
     description |-> Normalizer("get_page_description", pi.page_type)]

element_mapping(pi) ==
    LET rows == [i \in 1..Len(pi.elements) |->
                    [name |-> Normalizer("get_element_name", pi.elements[i]),
                     desc |-> Normalizer("get_element_description", pi.elements[i]),
                     selector |-> pi.elements[i].selector,
                     type |-> pi.elements[i].type]]
    IN  [section |-> "element_mapping",
         table |-> IF rows # << >> THEN rows
                   ELSE << [name |-> <<"(No elements found)">>, desc |-> <<"-">>,
                            selector |-> <<"-">>, type |-> "-"] >>]

\* each of the three returns one text holding two cases
login_p0(tc) ==
    << TestCase(tc, <<"0","0","2">>, "P0", "functional", "login", <<"login success">>),
       TestCase(tc, <<"0","0","3">>, "P0", "exception", "login", <<"login failure">>) >>

form_p0(tc) ==
    << TestCase(tc, <<"0","0","2">>, "P0", "functional", "form submit", <<"submit success">>),
       TestCase(tc, <<"0","0","3">>, "P0", "validation", "form validation",
                <<"required field missing">>) >>

list_p0(tc) ==
    << TestCase(tc, <<"0","0","2">>, "P0", "functional", "list", <<"list data load">>),
       TestCase(tc, <<"0","0","3">>, "P0", "functional", "list", <<"pagination">>) >>

\* the list of texts _p0_tests returns
p0_tests(pi) ==
    LET tc == Normalizer("get_tc_prefix_from_url", pi.url)
        tests == << << TestCase(tc, <<"0","0","1">>, "P0", "functional", "page load",
                                <<pi.url, pi.title>>) >> >>
    IN  CASE pi.page_type = "LOGIN" -> Append(tests, login_p0(tc))
          [] pi.page_type = "FORM"  -> Append(tests, form_p0(tc))
          [] pi.page_type = "LIST"  -> Append(tests, list_p0(tc))
          [] OTHER -> tests

\* a variant that numbers the P1 cases from 201
p1_tests_from_201(pi) ==
    LET tc == Normalizer("get_tc_prefix_from_url", pi.url)
        inputs == OfKind(pi.elements, "input")
    IN  [i \in 1..Len(inputs) |->
            << TestCase(tc, <<"2">> \o Format02d(i), "P1", "validation",
                        "input validation",
                        <<Normalizer("get_element_name", inputs[i]),
                          inputs[i].selector>>) >>]

\* a variant that writes a P1 case for every element, whatever its kind
p1_tests_every_element(pi) ==
    LET tc == Normalizer("get_tc_prefix_from_url", pi.url)
        inputs == pi.elements
    IN  [i \in 1..Len(inputs) |->
            << TestCase(tc, <<"1">> \o Format02d(i), "P1", "validation",
                        "input validation",
                        <<Normalizer("get_element_name", inputs[i]),
                          inputs[i].selector>>) >>]

p1_tests(pi) ==
    LET tc == Normalizer("get_tc_prefix_from_url", pi.url)
        inputs == OfKind(pi.elements, "input")
    IN  [i \in 1..Len(inputs) |->
            << TestCase(tc, <<"1">> \o Format02d(i), "P1", "validation",
                        "input validation",
                        <<Normalizer("get_element_name", inputs[i]),
                          inputs[i].selector>>) >>]

\* one text holding the two cases
p2_tests(pi) ==
    LET tc == Normalizer("get_tc_prefix_from_url", pi.url)
    IN  << << TestCase(tc, <<"2","0","1">>, "P2", "ui", "ui", <<"styling">>),
              TestCase(tc, <<"2","0","2">>, "P2", "accessibility", "accessibility",
                       <<"keyboard navigation">>) >> >>

\* cases.append(heading); cases.extend(tests); ...; chr(10).join(cases)
test_cases(pi) ==
    LET Heading(priority) == [kind |-> "heading", priority |-> priority]
    IN  [section |-> "test_cases",
         cases |-> Flatten(<< <<Heading("P0")>> >> \o p0_tests(pi)
                           \o << <<Heading("P1")>> >> \o p1_tests(pi)
                           \o << <<Heading("P2")>> >> \o p2_tests(pi))]

\* _test_data: three dicts filled by a loop over the inputs, later writes
\* overriding earlier ones
test_data(pi) ==
    LET RECURSIVE PlanDataLoop(_, _)
        PlanDataLoop(inputs, acc) ==
            IF inputs = << >> THEN acc
            ELSE LET elem == Head(inputs)
                     field == Or(Or(elem.name, elem.id), "field")
                     attr_type == elem.attributes.type
                     triple == CASE attr_type = "email" ->
                                        <<"test@example.com", "invalid-email", "a@b.c">>
                                 [] attr_type = "password" ->
                                        <<"ValidPass123!", "123", "a*100">>
                                 [] attr_type = "tel" ->
                                        <<"13800138000", "abc", "1*20">>
                                 [] OTHER -> <<"test_value", "", "x*256">>
                 IN  PlanDataLoop(Tail(inputs),
                         [valid |-> (field :> triple[1]) @@ acc.valid,
                          invalid |-> (field :> triple[2]) @@ acc.invalid,
                          boundary |-> (field :> triple[3]) @@ acc.boundary])
    IN  [section |-> "test_data"] @@
        PlanDataLoop(OfKind(pi.elements, "input"),
                     [valid |-> << >>, invalid |-> << >>, boundary |-> << >>])

\* a variant that names the fill_ method of an input after its id first
page_methods_id_first(pi) ==
    LET method(elem) ==
            LET const == Normalizer("get_element_constant_name", elem)
            IN  CASE elem.type = "input" ->
                       << [def |-> <<"fill_", Normalizer("to_snake_case",
                                         Or(Or(elem.id, elem.name), "input"))>>,
                           const |-> const] >>
                  [] elem.type = "button" ->
                       << [def |-> <<"click_", Normalizer("to_snake_case",
                                         IF elem.text # << >> THEN Strip(elem.text)
                                         ELSE <<"b","u","t","t","o","n">>)>>,
                           const |-> const] >>
                  [] OTHER -> << >>
    IN  Flatten([i \in 1..Len(pi.elements) |-> method(pi.elements[i])])

\* the methods of the skeleton: fill_ for an input, click_ for a button
page_methods(pi) ==
    LET method(elem) ==
            LET const == Normalizer("get_element_constant_name", elem)
            IN  CASE elem.type = "input" ->
                       << [def |-> <<"fill_", Normalizer("to_snake_case",
                                         Or(Or(elem.name, elem.id), "input"))>>,
                           const |-> const] >>
                  [] elem.type = "button" ->
                       << [def |-> <<"click_", Normalizer("to_snake_case",
                                         IF elem.text # << >> THEN Strip(elem.text)
                                         ELSE <<"b","u","t","t","o","n">>)>>,
                           const |-> const] >>
                  [] OTHER -> << >>
    IN  Flatten([i \in 1..Len(pi.elements) |-> method(pi.elements[i])])

page_object_skeleton(pi) ==
    LET page_name == Normalizer("get_page_name_from_url", pi.url)
    IN  [section |-> "page_object_skeleton",
         class_name |-> Normalizer("to_class_name", page_name),
         page_name |-> page_name, url |-> pi.url, page_type |-> pi.page_type,
         selectors |-> [i \in 1..Len(pi.elements) |->
                           [const |-> Normalizer("get_element_constant_name",
                                                 pi.elements[i]),
                            selector |-> pi.elements[i].selector]],
         indicator |-> IF pi.elements # << >> THEN pi.elements[1].selector
                       ELSE <<"body">>,
         navigation |-> <<"navigate", "is_loaded">>,
         methods |-> page_methods(pi)]

notes(pi) ==
    [section |-> "notes",
     file_name |-> Normalizer("to_snake_case",
                              Normalizer("get_page_name_from_url", pi.url)),
     auth |-> Normalizer("requires_auth", pi.page_type)]

\* a variant that leaves the element map out when there are no elements
generate_without_empty_map(pi, clock) ==
    IF pi.elements = << >>
    THEN << header(pi, clock), overview(pi), test_cases(pi),
            test_data(pi), page_object_skeleton(pi), notes(pi) >>
    ELSE << header(pi, clock), overview(pi), element_mapping(pi), test_cases(pi),
            test_data(pi), page_object_skeleton(pi), notes(pi) >>

\* TestPlanGenerator.generate: the sections that "\n\n".join puts together
generate(pi, clock) ==
    << header(pi, clock), overview(pi), element_mapping(pi), test_cases(pi),
       test_data(pi), page_object_skeleton(pi), notes(pi) >>

(***************************************************************************)
(* TestCodeGenerator: page object, test suite and test data.               *)
(***************************************************************************)
\* the constant declarations of _gen_selectors, one per element
gen_selectors(pi) ==
    [i \in 1..Len(pi.elements) |->
        [const |-> Normalizer("get_element_constant_name", pi.elements[i]),
         comment |-> Normalizer("get_element_comment", pi.elements[i]),
         selector |-> pi.elements[i].selector]]

input_method(elem, const) ==
    LET name == Normalizer("to_snake_case", Or(Or(elem.name, elem.id), "input"))
    IN  << [def |-> <<"fill_", name>>, const |-> const],
           [def |-> <<"get_", name, "_value">>, const |-> const] >>

button_method(elem, const) ==
    LET text == Strip(IF elem.text # << >> THEN elem.text
                      ELSE <<"b","u","t","t","o","n">>)
    IN  << [def |-> <<"click_", Normalizer("to_snake_case", text)>>,
            const |-> const] >>

select_method(elem, const) ==
    << [def |-> <<"select_", Normalizer("to_snake_case",
                                        Or(Or(elem.name, elem.id), "option"))>>,
        const |-> const] >>

\* a variant without the branch for selects
gen_methods_without_select(pi) ==
    LET methods(elem) ==
            LET const == Normalizer("get_element_constant_name", elem)
            IN  CASE elem.type = "input"  -> << input_method(elem, const) >>
                  [] elem.type = "button" -> << button_method(elem, const) >>
                  [] OTHER -> << >>
    IN  Flatten([i \in 1..Len(pi.elements) |-> methods(pi.elements[i])])

\* the method texts of _gen_methods, one per input, button and select
gen_methods(pi) ==
    LET methods(elem) ==
            LET const == Normalizer("get_element_constant_name", elem)
            IN  CASE elem.type = "input"  -> << input_method(elem, const) >>
                  [] elem.type = "button" -> << button_method(elem, const) >>
                  [] elem.type = "select" -> << select_method(elem, const) >>
                  [] OTHER -> << >>
    IN  Flatten([i \in 1..Len(pi.elements) |-> methods(pi.elements[i])])

generate_page_object(pi, clock) ==
    [class_name |-> Normalizer("to_class_name",
                               Normalizer("get_page_name_from_url", pi.url)),
     generated |-> clock,
     url |-> pi.url, page_type |-> pi.page_type,
     selectors |-> gen_selectors(pi),
     URL |-> Normalizer("extract_url_path", pi.url),
     indicator |-> IF pi.elements # << >> THEN pi.elements[1].selector
                   ELSE <<"body">>,
     navigation |-> <<"navigate", "is_loaded">>,
     methods |-> gen_methods(pi),
     verification |-> <<"get_validation_errors", "has_validation_error">>]

\* a test method of the suite, with its markers and its TC title
Test(tc, number, priority, marker, def) ==
    [id |-> <<tc, number>>, priority |-> priority, marker |-> marker, def |-> def]

login_tests(tc, fn) ==
    << Test(tc, <<"0","0","2">>, "P0", "functional", "test_p0_successful_login"),
       Test(tc, <<"0","0","3">>, "P0", "exception", "test_p0_invalid_login") >>

form_tests(tc, fn) ==
    << Test(tc, <<"0","0","2">>, "P0", "functional", "test_p0_form_submit_success"),
       Test(tc, <<"0","0","3">>, "P0", "validation",
            "test_p0_required_field_validation") >>

\* a variant that also gives the REGISTER type the login tests
gen_type_tests_register(pi, tc, file_name) ==
    IF pi.page_type \in {"LOGIN", "REGISTER"} THEN login_tests(tc, file_name)
    ELSE IF pi.page_type = "FORM" THEN form_tests(tc, file_name)
    ELSE << >>

gen_type_tests(pi, tc, file_name) ==
    IF pi.page_type = "LOGIN" THEN login_tests(tc, file_name)
    ELSE IF pi.page_type = "FORM" THEN form_tests(tc, file_name)
    ELSE << >>

generate_test_cases(pi, clock) ==
    LET tc == Normalizer("get_tc_prefix_from_url", pi.url)
        file_name == Normalizer("get_file_name_from_url", pi.url)
    IN  [class_name |-> Normalizer("to_class_name",
                                   Normalizer("get_page_name_from_url", pi.url)),
         file_name |-> file_name,
         generated |-> clock,
         tests |-> << Test(tc, <<"0","0","1">>, "P0", "functional", "test_p0_page_load") >>
                   \o gen_type_tests(pi, tc, file_name)
                   \o << Test(tc, <<"1","0","1">>, "P1", "validation",
                              "test_p1_boundary_values"),
                         Test(tc, <<"1","0","2">>, "P1", "validation",
                              "test_p1_special_characters"),
                         Test(tc, <<"2","0","1">>, "P2", "ui", "test_p2_ui_styling") >>]

\* a variant whose table has no entry for "number"
TypeDataWithoutNumber(input_type) ==
    CASE input_type = "email" ->
             [valid |-> "test@example.com", invalid |-> "invalid-email",
              boundary |-> [min |-> "a@b.c", max |-> "a*50@example.com"]]
      [] input_type = "password" ->
             [valid |-> "ValidPass123!", invalid |-> "123",
              boundary |-> [min |-> "a", max |-> "a*100"]]
      [] input_type = "tel" ->
             [valid |-> "13800138000", invalid |-> "abc",
              boundary |-> [min |-> "1", max |-> "1*20"]]
      [] OTHER ->
             [valid |-> "test_value", invalid |-> "",
              boundary |-> [empty |-> "", min |-> "a", max |-> "x*256",
                            special |-> "@#$%^&*()"]]

\* type_data.get(input_type, default): valid, invalid and boundary values
TypeData(input_type) ==
    CASE input_type = "email" ->
             [valid |-> "test@example.com", invalid |-> "invalid-email",
              boundary |-> [min |-> "a@b.c", max |-> "a*50@example.com"]]
      [] input_type = "password" ->
             [valid |-> "ValidPass123!", invalid |-> "123",
              boundary |-> [min |-> "a", max |-> "a*100"]]
      [] input_type = "tel" ->
             [valid |-> "13800138000", invalid |-> "abc",
              boundary |-> [min |-> "1", max |-> "1*20"]]
      [] input_type = "number" ->
             [valid |-> "100", invalid |-> "abc",
              boundary |-> [min |-> "0", max |-> "999999999", negative |-> "-1"]]
      [] OTHER ->
             [valid |-> "test_value", invalid |-> "",
              boundary |-> [empty |-> "", min |-> "a", max |-> "x*256",
                            special |-> "@#$%^&*()"]]

\* a variant that keeps the first entry written for a field
RECURSIVE TestDataLoopFirstWins(_, _)
TestDataLoopFirstWins(elems, data) ==
    IF elems = << >> THEN data
    ELSE LET elem == Head(elems)
             field == Or(Or(elem.name, elem.id), "field")
             field_data == TypeData(elem.attributes.type)
         IN  TestDataLoopFirstWins(Tail(elems),
                 IF elem.type # "input" THEN data
                 ELSE [data EXCEPT
                          !.valid_data = @ @@ (field :> field_data.valid),
                          !.invalid_data = @ @@ (field :> field_data.invalid),
                          !.boundary_data = @ @@ (field :> field_data.boundary)])

\* a variant that writes no invalid_data entry when the invalid value is empty
RECURSIVE TestDataLoopNoEmptyInvalid(_, _)
TestDataLoopNoEmptyInvalid(elems, data) ==
    IF elems = << >> THEN data
    ELSE LET elem == Head(elems)
             field == Or(Or(elem.name, elem.id), "field")
             field_data == TypeData(elem.attributes.type)
         IN  TestDataLoopNoEmptyInvalid(Tail(elems),
                 IF elem.type # "input" THEN data
                 ELSE [data EXCEPT
                          !.valid_data = (field :> field_data.valid) @@ @,
                          !.invalid_data = IF field_data.invalid = "" THEN @
                                           ELSE (field :> field_data.invalid) @@ @,
                          !.boundary_data = (field :> field_data.boundary) @@ @])

\* the loop of generate_test_data over page_info.elements
RECURSIVE TestDataLoop(_, _)
TestDataLoop(elems, data) ==
    IF elems = << >> THEN data
    ELSE LET elem == Head(elems)
             field == Or(Or(elem.name, elem.id), "field")
             input_type == IF "type" \in DOMAIN elem.attributes
                           THEN elem.attributes.type ELSE "text"
             field_data == TypeData(input_type)
         IN  TestDataLoop(Tail(elems),
                 IF elem.type # "input" THEN data
                 ELSE [data EXCEPT
                          !.valid_data = (field :> field_data.valid) @@ @,
                          !.invalid_data = (field :> field_data.invalid) @@ @,
                          !.boundary_data = (field :> field_data.boundary) @@ @])

generate_test_data(pi) ==
    TestDataLoop(pi.elements,
                 [page_info |-> [url |-> pi.url, type |-> pi.page_type],
                  valid_data |-> << >>, invalid_data |-> << >>,
                  boundary_data |-> << >>])

\* path.parent.mkdir(parents=True, exist_ok=True); path.write_text(content)
WriteText(fs, file_path, content) ==
    (file_path :> [file |-> content])
        @@ (SubSeq(file_path, 1, Len(file_path) - 1) :> [dir |-> TRUE]) @@ fs

\* the three files generate_all saves under output_dir, and the dict it returns
generate_all(pi, output_dir, clock) ==
    LET file_name == Normalizer("get_file_name_from_url", pi.url)
        page_file == <<output_dir, "pages", <<file_name, "_page.py">> >>
        test_file == <<output_dir, "tests", <<"test_", file_name, ".py">> >>
        data_file == <<output_dir, "test-data", <<file_name, "_data.json">> >>
    IN  [written |-> << <<page_file, generate_page_object(pi, clock)>>,
                        <<test_file, generate_test_cases(pi, clock)>>,
                        <<data_file, generate_test_data(pi)>> >>,
         files |-> [page_object |-> page_file, test_cases |-> test_file,
                    test_data |-> data_file]]

(***************************************************************************)
(* The generators at work: a caller holds the PageInfo of a finished       *)
(* analyze() call and calls generator operations on it, in any order and   *)
(* at any time.                                                            *)
(***************************************************************************)
MaxCalls == 2    \* generator calls in one behaviour

Analysis == <<pc, Inputs, Locals, browser, session, closedBy, steps, pending,
              outcome, memo>>

\* a generator operation returns result, having left its argument alone
Returns(op, result) ==
    /\ pc = "done"
    /\ page_info # Unset
    /\ Len(calls) < MaxCalls
    /\ calls' = Append(calls, [op |-> op, at |-> now, result |-> result])
    /\ UNCHANGED <<Analysis, now>>

\* a variant of generate that also writes the plan to a file
GenerateAndSave ==
    /\ Returns("generate", generate(page_info[1], now))
    /\ files' = WriteText(files, <<"docs", "plan.md">>, generate(page_info[1], now))
    /\ UNCHANGED page_info

Generate ==
    /\ Returns("generate", generate(page_info[1], now))
    /\ UNCHANGED <<page_info, files>>

GeneratePageObject ==
    /\ Returns("generate_page_object", generate_page_object(page_info[1], now))
    /\ UNCHANGED <<page_info, files>>

GenerateTestCases ==
    /\ Returns("generate_test_cases", generate_test_cases(page_info[1], now))
    /\ UNCHANGED <<page_info, files>>

\* a variant that filters page_info.elements in place
GenerateTestDataInPlace ==
    /\ Returns("generate_test_data", generate_test_data(page_info[1]))
    /\ page_info' = << [page_info[1] EXCEPT
                           !.elements = OfKind(page_info[1].elements, "input")] >>
    /\ UNCHANGED files

GenerateTestData ==
    /\ Returns("generate_test_data", generate_test_data(page_info[1]))
    /\ UNCHANGED <<page_info, files>>

\* generate_all: self._save(file, content) for each of its three files
GenerateAll ==
    LET RECURSIVE SaveAll(_, _)
        SaveAll(fs, written) ==
            IF written = << >> THEN fs
            ELSE SaveAll(WriteText(fs, Head(written)[1], Head(written)[2]),
                         Tail(written))
    IN  \E output_dir \in {"."} :
            LET r == generate_all(page_info[1], output_dir, now)
            IN  /\ Returns("generate_all", r.files)
                /\ files' = SaveAll(files, r.written)
                /\ UNCHANGED page_info

\* TestPlanGenerator.save(content, file_path), with a plan generated before
Save ==
    \E i \in 1..Len(calls) : \E file_path \in { <<"docs", "plan.md">> } :
        /\ calls[i].op = "generate"
        /\ Returns("save", << >>)
        /\ files' = WriteText(files, file_path, calls[i].result)
        /\ UNCHANGED page_info

\* time passes after a call: the clock shows a later second
Tick ==
    /\ pc = "done"
    /\ page_info # Unset
    /\ calls # << >>
    /\ now = 0
    /\ now' = now + 1
    /\ UNCHANGED <<Analysis, page_info, files, calls>>

\* the caller has analysed a page (one of URLs x DOMs) and holds the PageInfo
\* that was returned
HandedOver(URLs, DOMs) ==
    \E u \in URLs, d \in DOMs :
        LET page == [dom |-> d, failing |-> {}]
            pi == analyze_page(page, u, "Sign in")
            found == get_inputs(page) \o get_buttons(page) \o get_links(page)
                         \o get_selects(page)
        IN  /\ pc = "done"
            /\ url = u /\ auth_callback = FALSE /\ dom = d
            /\ page_title = "Sign in" /\ failing = {}
            /\ browser = "closed" /\ session = "closed" /\ closedBy = "finally"
            /\ steps = LoadedSteps \o <<"detect", "inputs", "buttons", "links",
                                        "selects", "forms", "navigation", "return",
                                        "close", "stop">>
            /\ title = <<"Sign in">>
            /\ scores = <<ComputeScores(u, page)>>
            /\ page_type = <<pi.page_type>>
            /\ elements = pi.elements
            /\ producedBy = [i \in 1..Len(found) |-> found[i].origin]
            /\ forms = pi.forms /\ navigation = pi.navigation
            /\ pending = [kind |-> "return", value |-> pi]
            /\ outcome = [kind |-> "return", value |-> pi]
            /\ runs = 1
            /\ memo = << [url |-> u, dom |-> d, failing |-> {},
                          page_type |-> pi.page_type] >>
            /\ page_info = <<pi>>
            /\ now = 0 /\ files = << >> /\ calls = << >>
            /\ environ = << >> /\ instance = <<0>>
            /\ config_data = <<get_default_config>>

(***************************************************************************)
(* Rendering: the four operations that return an artifact, on the PageInfo *)
(* of any page.                                                            *)
(***************************************************************************)
InitGenerate == HandedOver(GenURLs, DOMsFrom(GenPool, MaxNodes))

NextGenerate ==
    \/ Generate \/ GeneratePageObject \/ GenerateTestCases \/ GenerateTestData
    \/ Tick

SpecGenerate == InitGenerate /\ [][NextGenerate]_vars

(***************************************************************************)
(* Every operation of the two generator classes, the saving ones included, *)
(* on the PageInfo of a few pages.                                         *)
(***************************************************************************)
InitFiles ==
    HandedOver({ BaseUrl, BaseUrl \o <<"/","L","o","g","i","n">> },
               { << >>, <<Nodes.email, Nodes.join>>, <<Nodes.note, Nodes.country>> })

NextFiles == NextGenerate \/ GenerateAll \/ Save

SpecFiles == InitFiles /\ [][NextFiles]_vars

(***************************************************************************)
(* The configuration manager at work: a fresh process constructs it and    *)
(* asks it for values.                                                     *)
(***************************************************************************)
\* the state the configuration calls leave alone
NotConfiguration ==
    <<pc, url, auth_callback, dom, page_title, failing, runs, Locals, browser,
      session, closedBy, steps, pending, outcome, memo, page_info, now, files>>

\* ConfigManager() and ConfigManager(config_file): __new__(cls) takes no
\* argument, so a call with one raises TypeError before __init__ runs;
\* otherwise __new__ makes the instance once and __init__ loads the
\* configuration unless it is loaded already
Construct ==
    \E config_file \in { << >>, <<"other.yaml">> } :
        /\ Len(calls) < MaxCalls
        /\ IF config_file # << >>
           THEN /\ calls' = Append(calls, [op |-> "ConfigManager",
                                           config_file |-> config_file,
                                           result |-> [kind |-> "raise",
                                                       error |-> "TypeError"],
                                           loaded |-> << >>])
                /\ UNCHANGED <<instance, config_data>>
           ELSE LET made == IF instance = None THEN <<Len(calls) + 1>> ELSE instance
                IN  /\ instance' = made
                    /\ config_data' = IF config_data = None
                                      THEN <<load_config(files, ConfigFile)>>
                                      ELSE config_data
                    /\ calls' = Append(calls, [op |-> "ConfigManager",
                                               config_file |-> config_file,
                                               result |-> [kind |-> "return",
                                                           value |-> made[1]],
                                               loaded |-> IF config_data = None
                                                          THEN <<ConfigFile>>
                                                          ELSE << >>])
        /\ UNCHANGED <<NotConfiguration, environ>>

\* config.get(key, default) on the instance, for a few keys and defaults
Get ==
    LET ConfigKeys == { <<"b","r","o","w","s","e","r",".","t","i","m","e","o","u","t">>,
                    <<"b","r","o","w","s","e","r">>,
                    <<"b","r","o","w","s","e","r",".","t","i","m","e","o","u","t",".","m","s">>,
                    <<"b","r","o","w","s","e","r",".","t","y","p","e">>,
                    <<"t","e","s","t",".","v","i","d","e","o","_","r","e","c","o","r","d","i","n","g">>,
                    <<"b","r","o","w","s","e","r","_","t","i","m","e","o","u","t">> }
        Defaults == { PyNone, [kind |-> "int", repr |-> <<"7">>],
                  [kind |-> "dict", items |-> (<<"u","s","e","r","n","a","m","e">> :> [kind |-> "str", repr |-> <<"t","e","s","t","u","s","e","r">>])] }
    IN  \E key \in ConfigKeys, default \in Defaults :
            /\ instance # None
            /\ Len(calls) < MaxCalls
            /\ calls' = Append(calls,
                               [op |-> "get", key |-> key, default |-> default,
                                result |-> get(environ, config_data[1], key,
                                               default)])
            /\ UNCHANGED <<NotConfiguration, environ, instance, config_data>>

\* a fresh process: the module is imported, no ConfigManager has been made
InitConfig ==
    /\ pc = "idle"
    /\ url = << >> /\ auth_callback = FALSE /\ dom = << >> /\ page_title = ""
    /\ failing = {}
    /\ browser = "none" /\ session = "none" /\ closedBy = "none"
    /\ steps = << >>
    /\ title = Unset /\ scores = Unset /\ page_type = Unset
    /\ elements = << >> /\ producedBy = << >> /\ forms = << >> /\ navigation = << >>
    /\ pending = NoOutcome /\ outcome = NoOutcome
    /\ runs = 0
    /\ memo = Unset
    /\ page_info = Unset /\ now = 0 /\ calls = << >>
    /\ files \in Disks
    /\ environ \in Environs
    /\ instance = None /\ config_data = None

NextConfig == Construct \/ Get

SpecConfig == InitConfig /\ [][NextConfig]_vars

(***************************************************************************)
(* The claims.                                                             *)
(***************************************************************************)
ExtractionSteps == <<"title", "detect", "inputs", "buttons", "links", "selects",
                     "forms", "navigation">>

HasRun(step) == \E i \in 1..Len(steps) : steps[i] = step

\* C1: a call that has opened its browser session (browser, context and page)
\* has closed it, by the finally clause, before control leaves the with block,
\* whether a PageInfo or an exception is on its way out; and no call leaves a
\* browser open when it has reached its caller.
C1_SessionClosedOnExit ==
    /\ pc \in {"with_exit", "done"} /\ session # "none"
           => session = "closed" /\ browser = "closed" /\ closedBy = "finally"
    /\ pc = "done" => browser # "open" /\ session # "open"
    /\ outcome.kind = "return" => session = "closed" /\ closedBy = "finally"

C1_Witness ==
    /\ pc = "done"
    /\ outcome.kind = "raise" /\ outcome.at = "auth"
    /\ session = "closed" /\ closedBy = "finally"

\* C2: a call ends in a PageInfo or in one exception; a PageInfo is returned
\* only after navigation and every extraction step have run, and carries what
\* those steps produced; once navigation has failed no extraction step runs and
\* the caller gets the exception.
C2_CompleteOrFatal ==
    /\ pc = "done" => outcome.kind \in {"return", "raise"}
    /\ \A o \in {pending, outcome} :
           o.kind = "return" =>
               /\ HasRun("goto") /\ HasRun("settle")
               /\ \A i \in 1..Len(ExtractionSteps) : HasRun(ExtractionSteps[i])
               /\ o.value = [url |-> url, title |-> page_title,
                             page_type |-> page_type[1], elements |-> elements,
                             forms |-> forms, navigation |-> navigation]
               /\ o.value.page_type \in PageTypes
    /\ pending.kind = "raise" /\ pending.at \in {"goto", "settle"}
           => /\ \A i \in 1..Len(ExtractionSteps) : ~HasRun(ExtractionSteps[i])
              /\ pc \in {"finally", "with_exit", "done", "idle"}
              /\ pc \in {"done", "idle"} => outcome = pending

C2_Witness ==
    /\ pc = "done"
    /\ outcome.kind = "raise" /\ outcome.at = "goto" /\ outcome.error = "TimeoutError"
    /\ ~HasRun("title")

\* the patterns of type t that match the URL, and its selectors that find a node
UrlHits(t) ==
    { k \in 1..Len(RulesOf(t).url_patterns) :
          re_search(PatternChars(RulesOf(t).url_patterns[k]), url) }

DomHits(t) ==
    { k \in 1..Len(RulesOf(t).element_patterns) :
          /\ ~LocatorRaises(Page, t, RulesOf(t).element_patterns[k])
          /\ \E i \in 1..Len(dom) : Matches(dom[i], RulesOf(t).element_patterns[k]) }

\* C3: after classification, the score of each of the seven types is twice the
\* number of its URL patterns that match the URL plus the number of its
\* DOM-presence selectors that find a node; it depends on that type's rules only.
C3_ScoreFormula ==
    pc = "inputs" =>
        /\ DOMAIN scores[1] = {"LOGIN", "REGISTER", "FORM", "LIST", "DETAIL",
                               "DASHBOARD", "SETTINGS"}
        /\ \A t \in PageTypes :
               scores[1][t] = 2 * Cardinality(UrlHits(t)) + Cardinality(DomHits(t))

C3_Witness ==
    /\ pc = "inputs"
    /\ Cardinality(UrlHits("LOGIN")) = 2 /\ Cardinality(DomHits("LOGIN")) = 1
    /\ scores[1]["LOGIN"] = 5

DeclaredOrder == <<"LOGIN", "REGISTER", "FORM", "LIST", "DETAIL", "DASHBOARD",
                   "SETTINGS">>

MaxScore(sc) == CHOOSE m \in { sc[t] : t \in DOMAIN sc } : \A t \in DOMAIN sc : sc[t] <= m

\* C4: when the greatest score is positive, the result is the type of that score
\* that comes first in the order LOGIN, REGISTER, FORM, LIST, DETAIL, DASHBOARD,
\* SETTINGS; LOGIN and REGISTER at 2 each from the URL alone give LOGIN.
C4_TieBreak ==
    pc = "inputs" =>
        LET sc == scores[1]
            first == CHOOSE i \in 1..7 :
                         /\ sc[DeclaredOrder[i]] = MaxScore(sc)
                         /\ \A j \in 1..(i - 1) : sc[DeclaredOrder[j]] < MaxScore(sc)
        IN  /\ MaxScore(sc) > 0 => page_type[1] = DeclaredOrder[first]
            /\ (/\ sc["LOGIN"] = 2 /\ sc["REGISTER"] = 2 /\ MaxScore(sc) = 2
                /\ DomHits("LOGIN") = {} /\ DomHits("REGISTER") = {})
                   => page_type[1] = "LOGIN"

C4_Witness ==
    /\ pc = "inputs"
    /\ scores[1]["LOGIN"] = 2 /\ scores[1]["REGISTER"] = 2 /\ MaxScore(scores[1]) = 2
    /\ DomHits("LOGIN") = {} /\ DomHits("REGISTER") = {}
    /\ page_type[1] = "LOGIN"

\* C5: when every type scores 0 the result is FORM; otherwise the result is a
\* type of greatest score; the result is always one of the seven types.
C5_DefaultForm ==
    pc = "inputs" =>
        /\ (\A t \in PageTypes : UrlHits(t) = {} /\ DomHits(t) = {})
               => page_type[1] = "FORM"
        /\ MaxScore(scores[1]) > 0 => scores[1][page_type[1]] = MaxScore(scores[1])
        /\ page_type[1] \in {"LOGIN", "REGISTER", "FORM", "LIST", "DETAIL",
                             "DASHBOARD", "SETTINGS"}

C5_Witness ==
    /\ pc = "inputs"
    /\ \A t \in PageTypes : UrlHits(t) = {} /\ DomHits(t) = {}
    /\ dom # << >>
    /\ page_type[1] = "FORM"

\* C6: a call that returns for the URL, DOM and failing queries of the latest
\* call that returned gives the page type that call gave, whatever ran before.
C6_Deterministic ==
    (/\ pc = "with_exit" /\ pending.kind = "return" /\ memo # Unset
     /\ memo[1].url = url /\ memo[1].dom = dom /\ memo[1].failing = failing)
        => pending.value.page_type = memo[1].page_type

C6_Witness ==
    /\ pc = "with_exit" /\ pending.kind = "return" /\ memo # Unset
    /\ runs = 3
    /\ memo[1].url = url /\ memo[1].dom = dom /\ memo[1].failing = failing
    /\ dom # << >>
    /\ pending.value.page_type = memo[1].page_type

\* the four category routines: their queries and the kind they assign
Categories == <<
    [routine |-> "inputs",
     queries |-> <<"input[type='text']", "input[type='email']",
                   "input[type='password']", "input[type='number']",
                   "input[type='tel']", "input[type='url']", "input[type='search']",
                   "input:not([type])", "textarea">>,
     kind |-> "input"],
    [routine |-> "buttons",
     queries |-> <<"button", "input[type='submit']", "input[type='button']",
                   "[role='button']">>,
     kind |-> "button"],
    [routine |-> "links", queries |-> <<"a[href]">>, kind |-> "link"],
    [routine |-> "selects", queries |-> <<"select">>, kind |-> "select"] >>

\* the (category, query, node) triples whose query ran and matched the node
Found ==
    { x \in (1..4) \X (1..9) \X (1..Len(dom)) :
          /\ x[2] <= Len(Categories[x[1]].queries)
          /\ ~LocatorRaises(Page, Categories[x[1]].routine, Categories[x[1]].queries[x[2]])
          /\ Matches(dom[x[3]], Categories[x[1]].queries[x[2]]) }

OriginOf(x) == [routine |-> Categories[x[1]].routine,
                query |-> Categories[x[1]].queries[x[2]], node |-> x[3]]

Emitted(x) == \E j \in 1..Len(producedBy) : producedBy[j] = OriginOf(x)

AfterElements == pc \in {"forms", "navigation", "return", "finally", "with_exit", "done"}

\* every read of the node succeeds
ReadsFine(n) == \A i \in 1..Len(ElementReads) : ElementReads[i] \notin n.fails

WhitespaceOnlyClass(n) ==
    /\ n.class # << >>
    /\ n.class[1] # << >>
    /\ \A i \in 1..Len(n.class[1]) : n.class[1][i] \in Whitespace

\* C7: whichever category queries raise, the call returns a PageInfo, and its
\* elements hold the element of every node found by a query that did not raise
\* (and whose own reads succeed); no query failure reaches the caller.
C7_FaultTolerantQueries ==
    /\ AfterElements =>
           \A x \in Found :
               LET e == ExtractElementInfo(dom[x[3]], Categories[x[1]].kind)
               IN  e # None =>
                       \E j \in 1..Len(elements) :
                           producedBy[j] = OriginOf(x) /\ elements[j] = e[1]
    /\ pending.kind # "raise"
    /\ pc = "done" => outcome.kind = "return" /\ outcome.value.elements = elements

C7_Witness ==
    /\ pc = "done" /\ outcome.kind = "return"
    /\ failing = { <<"inputs", "input[type='email']">> }
    /\ \E i \in 1..Len(dom) : Matches(dom[i], "input[type='email']") /\ ReadsFine(dom[i])
    /\ \E j \in 1..Len(producedBy) : producedBy[j].query = "textarea"

C9_SelectorPreference ==
    \A j \in 1..Len(elements) :
        LET e == elements[j]
            n == dom[producedBy[j].node]
            classes == IF n.class = << >> THEN << >>
                       ELSE SelectSeq(n.class[1], LAMBDA t : t \notin Whitespace)
        IN  /\ e.id = (IF n.attrs["id"] = << >> THEN "" ELSE n.attrs["id"][1])
            /\ e.name = (IF n.attrs["name"] = << >> THEN "" ELSE n.attrs["name"][1])
            /\ e.tag = n.tag
            /\ e.id # "" => e.selector = <<"#", e.id>>
            /\ e.id = "" /\ e.name # "" => e.selector = <<"[name='", e.name, "']">>
            /\ e.id = "" /\ e.name = "" /\ classes # << >>
                   => e.selector = <<e.tag, ".", classes[1]>>
            /\ e.id = "" /\ e.name = "" /\ classes = << >> => e.selector = <<e.tag>>

C9_Witness ==
    /\ pc = "done"
    /\ \E j \in 1..Len(elements) :
           /\ elements[j].id = "pwd" /\ elements[j].name = "password"
           /\ elements[j].selector = <<"#", "pwd">>

KindOfRoutine(r) ==
    CASE r = "inputs" -> "input" [] r = "buttons" -> "button"
      [] r = "links" -> "link" [] r = "selects" -> "select"

\* C10: every element has a non-empty selector and one of the four kinds, and
\* its kind is that of the routine whose query found its node, whatever the DOM
\* (class attributes of whitespace only included).
C10_SelectorAndKind ==
    \A j \in 1..Len(elements) :
        LET e == elements[j]
            o == producedBy[j]
        IN  /\ \E k \in 1..Len(e.selector) : e.selector[k] # ""
            /\ e.type \in {"input", "button", "link", "select"}
            /\ e.type = KindOfRoutine(o.routine)
            /\ \E c \in 1..4 :
                   /\ Categories[c].routine = o.routine
                   /\ \E k \in 1..Len(Categories[c].queries) :
                          Categories[c].queries[k] = o.query
            /\ Matches(dom[o.node], o.query)

C10_Witness ==
    /\ pc = "done" /\ outcome.kind = "return"
    /\ \E i \in 1..Len(dom) : WhitespaceOnlyClass(dom[i])
    /\ \E j \in 1..Len(elements) :
           elements[j].type = "button" /\ producedBy[j].query = "[role='button']"

(***************************************************************************)
(* The claims about the generators.                                        *)
(***************************************************************************)
PI == page_info[1]

\* the results of the calls of one generator operation made so far
ResultsOf(op) ==
    { calls[i].result : i \in { j \in 1..Len(calls) : calls[j].op = op } }

Count(seq, Holds(_)) == Len(SelectSeq(seq, Holds))

\* the "#### TC-" cases of a generated plan
CasesOf(plan) == SelectSeq(plan[4].cases, LAMBDA b : b.kind = "case")

\* C11: a test plan has exactly one P0 page-load case; exactly two more P0
\* cases when the page type is LOGIN, FORM or LIST and none for the other
\* types; exactly one P1 case per element of kind input, in their order, and
\* none for other elements; and exactly the two P2 cases, styling and keyboard
\* navigation.
C11_PlanTiering ==
    \A plan \in ResultsOf("generate") :
        LET cases == CasesOf(plan)
            inputs == OfKind(PI.elements, "input")
            p0 == SelectSeq(cases, LAMBDA c : c.priority = "P0")
            p1 == SelectSeq(cases, LAMBDA c : c.priority = "P1")
            p2 == SelectSeq(cases, LAMBDA c : c.priority = "P2")
        IN  /\ Count(p0, LAMBDA c : c.story = "page load") = 1
            /\ Len(p0) = IF PI.page_type \in {"LOGIN", "FORM", "LIST"} THEN 3 ELSE 1
            /\ Len(p1) = Len(inputs)
            /\ \A i \in 1..Len(p1) : p1[i].about[2] = inputs[i].selector
            /\ Len(p2) = 2
            /\ p2[1].about = <<"styling">>
            /\ p2[2].about = <<"keyboard navigation">>
            /\ Len(cases) = Len(p0) + Len(p1) + Len(p2)

\* a plan of a LOGIN page with one password input and elements of other kinds
C11_Witness ==
    /\ ResultsOf("generate") # {}
    /\ PI.page_type = "LOGIN"
    /\ Count(PI.elements, LAMBDA e : e.type = "input") = 1
    /\ \E i \in 1..Len(PI.elements) :
           PI.elements[i].type = "input" /\ PI.elements[i].attributes.type = "password"
    /\ \E i \in 1..Len(PI.elements) : PI.elements[i].type # "input"

PlanSections == <<"header", "overview", "element_mapping", "test_cases",
                  "test_data", "page_object_skeleton", "notes">>

\* C12: a test plan consists of exactly the seven sections header, overview,
\* element map, test cases, test data, code skeleton and notes, in this order,
\* whatever the page type and the elements; the test-case section has the P0
\* block, then the P1 block, then the P2 block, each case under the heading of
\* its tier.
C12_SectionOrder ==
    \A plan \in ResultsOf("generate") :
        LET blocks == plan[4].cases
            headings == { i \in 1..Len(blocks) : blocks[i].kind = "heading" }
        IN  /\ [i \in 1..Len(plan) |-> plan[i].section] = PlanSections
            /\ [i \in 1..Cardinality(headings) |->
                   blocks[Ascending(headings)[i]].priority] = <<"P0", "P1", "P2">>
            /\ \A k \in 1..Len(blocks) :
                   blocks[k].kind = "case" =>
                       \E h \in headings :
                           /\ h < k
                           /\ blocks[h].priority = blocks[k].priority
                           /\ \A g \in headings : g < k => g <= h

\* a plan of a page on which no element was found
C12_Witness ==
    /\ ResultsOf("generate") # {}
    /\ PI.elements = << >>
    /\ PI.page_type = "DASHBOARD"

\* the prefixes of the methods a page object declares for an element kind
MethodsOfKind(kind) ==
    CASE kind = "input"  -> <<"fill_", "get_">>
      [] kind = "button" -> <<"click_">>
      [] kind = "select" -> <<"select_">>
      [] OTHER -> << >>

\* a page object declares the constants of the elements, in their order, and
\* the fixed navigation and validation methods
DeclaresConstants(po) ==
    /\ Len(po.selectors) = Len(PI.elements)
    /\ \A i \in 1..Len(PI.elements) :
           /\ po.selectors[i].selector = PI.elements[i].selector
           /\ po.selectors[i].const =
                  Normalizer("get_element_constant_name", PI.elements[i])
    /\ po.navigation = <<"navigate", "is_loaded">>
    /\ po.verification = <<"get_validation_errors", "has_validation_error">>

\* the method groups of a page object are those of the elements owners, in order
DeclaresGroups(po, owners) ==
    /\ Len(po.methods) = Len(owners)
    /\ \A i \in 1..Len(owners) :
           /\ [k \in 1..Len(po.methods[i]) |-> po.methods[i][k].def[1]]
                  = MethodsOfKind(owners[i].type)
           /\ po.methods[i] # << >>
           /\ \A k \in 1..Len(po.methods[i]) :
                  po.methods[i][k].const =
                      Normalizer("get_element_constant_name", owners[i])

\* C13 as stated: one selector constant per element and one action-method
\* group per element (fill_ and get_ for an input, click_ for a button,
\* select_ for a select), with navigate, is_loaded and the two validation
\* passthroughs always declared.
C13_Original ==
    \A po \in ResultsOf("generate_page_object") :
        DeclaresConstants(po) /\ DeclaresGroups(po, PI.elements)

\* C13, amended: one selector constant per element of every kind, in element
\* order; one action-method group per element of kind input, button or select,
\* in element order, and none for an element of kind link; navigate, is_loaded,
\* get_validation_errors and has_validation_error always declared.
C13_Amended ==
    \A po \in ResultsOf("generate_page_object") :
        /\ DeclaresConstants(po)
        /\ DeclaresGroups(po, SelectSeq(PI.elements, LAMBDA e : e.type # "link"))
        /\ \A i \in 1..Len(PI.elements) :
               PI.elements[i].type \in {"input", "button", "link", "select"}

\* a page object of a page with a button, a select and a link
C13_Witness ==
    /\ ResultsOf("generate_page_object") # {}
    /\ \A kind \in {"button", "select", "link"} :
           \E i \in 1..Len(PI.elements) : PI.elements[i].type = kind

\* the names of the test methods of a generated suite
TestDefs(suite) == { suite.tests[i].def : i \in 1..Len(suite.tests) }

\* C14: the suite holds the login success and login failure tests exactly
\* when the page type is LOGIN, the form submit-success and
\* required-field-missing tests exactly when it is FORM, and for the other
\* five types no type-specific test: its only P0 test is the page-load test.
C14_TypeTests ==
    \A suite \in ResultsOf("generate_test_cases") :
        LET p0 == SelectSeq(suite.tests, LAMBDA t : t.priority = "P0")
        IN  /\ \A d \in {"test_p0_successful_login", "test_p0_invalid_login"} :
                   d \in TestDefs(suite) <=> PI.page_type = "LOGIN"
            /\ \A d \in {"test_p0_form_submit_success",
                         "test_p0_required_field_validation"} :
                   d \in TestDefs(suite) <=> PI.page_type = "FORM"
            /\ PI.page_type \notin {"LOGIN", "FORM"} =>
                   [i \in 1..Len(p0) |-> p0[i].def] = <<"test_p0_page_load">>
            /\ PI.page_type \in {"LOGIN", "FORM"} => Len(p0) = 3

\* a suite generated for a REGISTER page that has a password input
C14_Witness ==
    /\ ResultsOf("generate_test_cases") # {}
    /\ PI.page_type = "REGISTER"
    /\ \E i \in 1..Len(PI.elements) : PI.elements[i].attributes.type = "password"

\* C15: the test cases of the generated suite, by tier and test-case ID, are
\* those of the test plan generated from the same PageInfo.
C15_SuiteMirrorsPlan ==
    \A suite \in ResultsOf("generate_test_cases") :
        LET cases == CasesOf(generate(PI, now))
        IN  { <<suite.tests[i].priority, suite.tests[i].id>> :
                  i \in 1..Len(suite.tests) }
            = { <<cases[i].priority, cases[i].id>> : i \in 1..Len(cases) }

\* the field key of an input
FieldKey(e) == IF e.name # "" THEN e.name ELSE IF e.id # "" THEN e.id ELSE "field"

\* the input that decides a field: the last one, in element order, with the key
LastWithKey(k) ==
    LET inputs == OfKind(PI.elements, "input")
        last == CHOOSE i \in 1..Len(inputs) :
                    /\ FieldKey(inputs[i]) = k
                    /\ \A j \in 1..Len(inputs) : FieldKey(inputs[j]) = k => j <= i
    IN  inputs[last]

\* C16: generate_test_data gives a field the valid and invalid values of the
\* declared type of its input: email, password, tel and number have their own,
\* every other type (text, url, search, empty or absent) has the generic
\* default; elements that are not inputs contribute no entry.
C16_TypeTable ==
    \A data \in ResultsOf("generate_test_data") :
        LET inputs == OfKind(PI.elements, "input")
        IN  /\ DOMAIN data.valid_data \subseteq
                   { FieldKey(inputs[i]) : i \in 1..Len(inputs) }
            /\ \A k \in DOMAIN data.valid_data :
                   LET t == LastWithKey(k).attributes.type
                   IN  <<data.valid_data[k], data.invalid_data[k]>> =
                       CASE t = "email"    -> <<"test@example.com", "invalid-email">>
                         [] t = "password" -> <<"ValidPass123!", "123">>
                         [] t = "tel"      -> <<"13800138000", "abc">>
                         [] t = "number"   -> <<"100", "abc">>
                         [] OTHER          -> <<"test_value", "">>

\* test data of a page with a number input and an element that is no input
C16_Witness ==
    \E data \in ResultsOf("generate_test_data") :
        /\ \E i \in 1..Len(PI.elements) :
               PI.elements[i].type = "input" /\ PI.elements[i].attributes.type = "number"
        /\ \E i \in 1..Len(PI.elements) : PI.elements[i].type = "select"
        /\ data.valid_data = [field |-> "100"]

\* C17: the field key of an input is its name, else its id, else "field";
\* valid_data, invalid_data and boundary_data hold, for every key, the values
\* of the last input in element order that has the key, and every input's key
\* has an entry.
C17_LastWriteWins ==
    \A data \in ResultsOf("generate_test_data") :
        LET inputs == OfKind(PI.elements, "input")
        IN  /\ \A i \in 1..Len(inputs) :
                   Or(Or(inputs[i].name, inputs[i].id), "field")
                       \in DOMAIN data.valid_data
            /\ \A k \in DOMAIN data.valid_data :
                   LET field_data == TypeData(LastWithKey(k).attributes.type)
                   IN  /\ data.valid_data[k] = field_data.valid
                       /\ data.invalid_data[k] = field_data.invalid
                       /\ data.boundary_data[k] = field_data.boundary

\* two inputs without name and id, of different declared types, share "field"
C17_Witness ==
    \E data \in ResultsOf("generate_test_data") :
        LET inputs == OfKind(PI.elements, "input")
        IN  /\ Len(inputs) = 2
            /\ \A i \in 1..2 : inputs[i].name = "" /\ inputs[i].id = ""
            /\ inputs[1].attributes.type = "number"
            /\ inputs[2].attributes.type = ""
            /\ data.valid_data = [field |-> "test_value"]

PureGenerators == {"generate", "generate_page_object", "generate_test_cases",
                   "generate_test_data"}

\* what a generator returns for a PageInfo at a clock reading
Generated(op, pi, clock) ==
    CASE op = "generate"             -> generate(pi, clock)
      [] op = "generate_page_object" -> generate_page_object(pi, clock)
      [] op = "generate_test_cases"  -> generate_test_cases(pi, clock)
      [] op = "generate_test_data"   -> generate_test_data(pi)

\* C18: the generators leave the PageInfo they are given as analyze() returned
\* it, in every field; they do no browser navigation (the session stays closed
\* and the only navigation is that of the analysis); and what a generator
\* returns is what it returns for the PageInfo as analyze() returned it,
\* whichever generators were called before it.
C18_PageInfoUntouched ==
    /\ page_info = <<outcome.value>>
    /\ pc = "done" /\ browser = "closed" /\ session = "closed"
    /\ Count(steps, LAMBDA st : st = "goto") = 1
    /\ \A i \in 1..Len(calls) :
           calls[i].op \in PureGenerators =>
               calls[i].result = Generated(calls[i].op, outcome.value, calls[i].at)

\* test data, then the page object, of a page with elements that are no inputs
C18_Witness ==
    /\ Len(calls) = 2
    /\ calls[1].op = "generate_test_data"
    /\ calls[2].op = "generate_page_object"
    /\ \E i \in 1..Len(PI.elements) : PI.elements[i].type # "input"
    /\ \E i \in 1..Len(PI.elements) : PI.elements[i].type = "input"

\* C19: two calls of the same generator with the same PageInfo return the
\* same output, whatever the time of the calls.
C19_Reproducible ==
    \A i, j \in 1..Len(calls) :
        calls[i].op = calls[j].op /\ calls[i].op \in PureGenerators =>
            calls[i].result = calls[j].result

\* the files of the filesystem (directories apart)
FilePaths == { path \in DOMAIN files : "file" \in DOMAIN files[path] }

FatalSites == {"goto", "settle", "title"}

\* C21: an exception that leaves analyze() because navigation, the settle wait
\* or the session failed is of one dedicated error type and carries the url the
\* call was given.
C21_TypedFailure ==
    outcome.kind = "raise" /\ outcome.at \in FatalSites
        => /\ outcome.error = "AnalysisError"
           /\ "url" \in DOMAIN outcome
           /\ outcome.url = url

\* the environment variable a key is looked up under, the path of a dotted key
\* and what the configuration data holds at a path (<< >> when nothing)
EnvName(key) ==
    [i \in 1..Len(key) |->
        IF key[i] = "." THEN "_"
        ELSE IF \E k \in 1..26 : LowerAlpha[k] = key[i]
        THEN UpperAlpha[CHOOSE k \in 1..26 : LowerAlpha[k] = key[i]]
        ELSE key[i]]

RECURSIVE DottedPath(_)
DottedPath(key) ==
    IF \A i \in 1..Len(key) : key[i] # "." THEN <<key>>
    ELSE LET dot == CHOOSE i \in 1..Len(key) :
                        key[i] = "." /\ \A j \in 1..(i - 1) : key[j] # "."
         IN  <<SubSeq(key, 1, dot - 1)>> \o DottedPath(SubSeq(key, dot + 1, Len(key)))

RECURSIVE AtPath(_, _)
AtPath(data, path) ==
    IF path = << >> THEN <<data>>
    ELSE IF data.kind = "dict" /\ Head(path) \in DOMAIN data.items
    THEN AtPath(data.items[Head(path)], Tail(path))
    ELSE << >>

GetCalls == { i \in 1..Len(calls) : calls[i].op = "get" }

\* C22: every get(key, default) returns the converted value of the environment
\* variable named by the key in upper case with "_" for ".", when that variable
\* is set; otherwise the value at the key's dotted path in the loaded
\* configuration data, when the path exists; otherwise the default.
C22_Precedence ==
    \A i \in GetCalls :
        LET call == calls[i]
            name == EnvName(call.key)
            in_file == AtPath(config_data[1], DottedPath(call.key))
        IN  call.result = IF name \in DOMAIN environ THEN convert_value(environ[name])
                          ELSE IF in_file # << >> THEN in_file[1]
                          ELSE call.default

\* the variable is set and the file has the key too: the variable wins
C22_Witness ==
    /\ environ = (<<"B","R","O","W","S","E","R","_","T","I","M","E","O","U","T">> :> <<"6","0","0","0","0">>)
    /\ config_data # None
    /\ AtPath(config_data[1], <<<<"b","r","o","w","s","e","r">>, <<"t","i","m","e","o","u","t">>>>)
           = << [kind |-> "int", repr |-> <<"5","0","0","0">>] >>
    /\ \E i \in GetCalls :
           /\ calls[i].key = <<"b","r","o","w","s","e","r",".","t","i","m","e","o","u","t">>
           /\ calls[i].result = [kind |-> "int", repr |-> <<"6","0","0","0","0">>]

\* the selectors of type t that a node of the page matches, and those among
\* them whose evaluation raises
Present(t) ==
    { k \in 1..Len(RulesOf(t).element_patterns) :
          LocatorCount(Page, RulesOf(t).element_patterns[k]) > 0 }

RaisingOnMatch(t) ==
    { k \in Present(t) : LocatorRaises(Page, t, RulesOf(t).element_patterns[k]) }

\* C23: a presence selector that raises during scoring adds nothing to its
\* type's score, as if no node matched it, and takes nothing from the other
\* selectors and types: what the selectors of a type add to its score is one
\* per selector that a node matches, less one per such selector that raises;
\* whatever raises, classification ends with one of the seven types and no
\* exception.
C23_SelectorFailureIsAbsence ==
    pc = "inputs" /\ failing # {} =>
        /\ \A t \in PageTypes :
               scores[1][t] - 2 * Cardinality(UrlHits(t))
                   = Cardinality(Present(t)) - Cardinality(RaisingOnMatch(t))
        /\ page_type # Unset /\ page_type[1] \in PageTypes
        /\ pending.kind # "raise"

\* the password query of LOGIN raises on a page with a password field: LOGIN
\* loses that point, REGISTER keeps its own
C23_Witness ==
    /\ pc = "inputs"
    /\ failing = { <<"LOGIN", "input[type='password']">> }
    /\ RaisingOnMatch("LOGIN") = {1}
    /\ UrlHits("LOGIN") = {}
    /\ scores[1]["LOGIN"] = Cardinality(Present("LOGIN")) - 1
    /\ scores[1]["REGISTER"] = 2 + Cardinality(Present("REGISTER"))
    /\ page_type[1] = "REGISTER"

\* the steps of a call in the order of the source text
StepOrder == <<"launch", "new_context", "new_page", "auth", "goto", "settle",
               "title", "detect", "inputs", "buttons", "links", "selects",
               "forms", "navigation", "return", "close", "stop">>

Rank(step) == CHOOSE k \in 1..Len(StepOrder) : StepOrder[k] = step

\* C24: the steps of one call run in the order: session opened (browser,
\* context, page), the callback if one was given, navigation, the settle
\* delay, title, classification, elements, forms, navigation links, session
\* closed.  The callback runs only when given, and then before navigation
\* starts; no extraction step runs before navigation and the settle delay have
\* completed; a call that returns has run every step.
C24_StepOrder ==
    /\ \A i, j \in 1..Len(steps) : i < j => Rank(steps[i]) < Rank(steps[j])
    /\ HasRun("auth") => auth_callback
    /\ pc = "auth" => ~HasRun("goto") /\ HasRun("new_page")
    /\ pc = "goto" /\ auth_callback => HasRun("auth")
    /\ HasRun("goto") /\ auth_callback => HasRun("auth")
    /\ \A i \in 1..Len(ExtractionSteps) :
           HasRun(ExtractionSteps[i]) \/ pc = ExtractionSteps[i]
               => HasRun("new_page") /\ HasRun("goto") /\ HasRun("settle")
    /\ HasRun("goto") => HasRun("new_page")
    /\ pc = "done" /\ outcome.kind = "return"
           => steps = SelectSeq(StepOrder, LAMBDA step : step # "auth" \/ auth_callback)

C24_Witness ==
    /\ pc = "done"
    /\ auth_callback
    /\ outcome.kind = "return"
    /\ steps = StepOrder

\* C25: in the dict generate_test_data returns, valid_data, invalid_data and
\* boundary_data have the same keys, namely the field keys of the elements of
\* kind input (so no more keys than inputs), and page_info holds the url and
\* the page type of the PageInfo.
C25_SameKeys ==
    \A data \in ResultsOf("generate_test_data") :
        LET inputs == OfKind(PI.elements, "input")
            keys == { FieldKey(inputs[i]) : i \in 1..Len(inputs) }
        IN  /\ DOMAIN data = {"page_info", "valid_data", "invalid_data",
                              "boundary_data"}
            /\ DOMAIN data.valid_data = keys
            /\ DOMAIN data.invalid_data = keys
            /\ DOMAIN data.boundary_data = keys
            /\ Cardinality(keys) <= Len(inputs)
            /\ data.page_info = [url |-> PI.url, type |-> PI.page_type]

\* two inputs with different keys, one of them of a type whose invalid value
\* is the empty string
C25_Witness ==
    \E data \in ResultsOf("generate_test_data") :
        /\ Len(OfKind(PI.elements, "input")) = 2
        /\ DOMAIN data.invalid_data = {"email", "field"}
        /\ data.invalid_data["field"] = ""
        /\ data.page_info.type = PI.page_type

ManyInputs == 120    \* inputs of a long page, for the numbering of its P1 cases

\* the number a sequence of decimal digits denotes
RECURSIVE DigitsValue(_)
DigitsValue(ds) ==
    IF ds = << >> THEN 0
    ELSE 10 * DigitsValue(SubSeq(ds, 1, Len(ds) - 1))
         + (CHOOSE d \in 0..9 :
                <<"0","1","2","3","4","5","6","7","8","9">>[d + 1] = ds[Len(ds)])

\* the number of the P1 case of the i-th input: "1" and i in decimal, padded
\* with a zero to two digits
IsNumberOf(number, i) ==
    /\ Head(number) = "1"
    /\ DigitsValue(Tail(number)) = i
    /\ Len(number) >= 3
    /\ Len(number) > 3 => number[2] # "0"

C27_TablesAgree ==
    \A plan \in ResultsOf("generate") : \A data \in ResultsOf("generate_test_data") :
        /\ DOMAIN plan[5].valid = DOMAIN data.valid_data
        /\ DOMAIN plan[5].invalid = DOMAIN data.invalid_data
        /\ \A k \in DOMAIN data.valid_data :
               /\ plan[5].valid[k] = data.valid_data[k]
               /\ plan[5].invalid[k] = data.invalid_data[k]


\* C28: the page-object skeleton of a test plan and the page object of
\* generate_page_object declare the same selector constants (names, selectors,
\* order) and the same page_loaded_indicator (the first element's selector, or
\* 'body' without elements), and every action-method name of the skeleton is
\* declared by the page object.
C28_SkeletonAgrees ==
    \A plan \in ResultsOf("generate") : \A po \in ResultsOf("generate_page_object") :
        LET skeleton == plan[6]
        IN  /\ skeleton.selectors =
                   [i \in 1..Len(po.selectors) |->
                       [const |-> po.selectors[i].const,
                        selector |-> po.selectors[i].selector]]
            /\ skeleton.indicator = po.indicator
            /\ po.indicator = IF PI.elements # << >> THEN PI.elements[1].selector
                              ELSE <<"body">>
            /\ \A i \in 1..Len(skeleton.methods) :
                   \E g \in 1..Len(po.methods) : \E k \in 1..Len(po.methods[g]) :
                       po.methods[g][k].def = skeleton.methods[i].def

\* a plan and a page object of a page with an input whose name and id differ
\* and a button: the skeleton declares two methods, the page object three
C28_Witness ==
    \E plan \in ResultsOf("generate") : \E po \in ResultsOf("generate_page_object") :
        /\ \E i \in 1..Len(PI.elements) :
               /\ PI.elements[i].type = "input"
               /\ PI.elements[i].name # ""
               /\ PI.elements[i].id # ""
               /\ PI.elements[i].name # PI.elements[i].id
        /\ \E i \in 1..Len(PI.elements) : PI.elements[i].type = "button"
        /\ Len(plan[6].methods) >= 2
        /\ Len(po.methods) >= 2
        /\ plan[6].indicator # <<"body">>

\* the place of a query in the order of extraction: its category, then its
\* position in the category's list
QueryRank(o) ==
    LET c == CHOOSE c \in 1..4 : Categories[c].routine = o.routine
        q == CHOOSE q \in 1..Len(Categories[c].queries) :
                 Categories[c].queries[q] = o.query
    IN  10 * c + q

Constructions == { i \in 1..Len(calls) : calls[i].op = "ConfigManager" }

\* C30: every construction of a ConfigManager returns the same instance, one
\* with a different config_file argument included; only the first loads a
\* file, and the configuration data stays what the first construction loaded.
C30_Singleton ==
    \A i \in Constructions :
        /\ calls[i].result.kind = "return"
        /\ instance # None /\ calls[i].result.value = instance[1]
        /\ config_data = <<load_config(files, ConfigFile)>>
        /\ calls[i].loaded # << >> => \A j \in Constructions : i <= j
====
